---- MODULE Spec2Model ----
(***************************************************************************)
(* The jira_update_issue tool of jira-mcp-server: one invocation of        *)
(* updateIssue (src/src/tools/updateIssue.ts) as a state machine.  Every   *)
(* await of the function is a point where a remote call is in flight; the  *)
(* remote API answers each call with a nondeterministic outcome.           *)
(***************************************************************************)
EXTENDS Integers, Sequences, FiniteSets, TLC

(***************************************************************************)
(* JavaScript values.  A string is a sequence of one-character strings, so *)
(* that toLowerCase, join and length are computed and not assumed.         *)
(***************************************************************************)
Undef == [k |-> "undefined"]
Null == [k |-> "null"]
Str(s) == [k |-> "string", s |-> s]
Num(n) == [k |-> "number", n |-> n]
Arr(items) == [k |-> "array", items |-> items]
Obj(type, version, content, text) ==
    [k |-> "object", type |-> type, version |-> version, content |-> content, text |-> text]

\* JavaScript truthiness of a value (the test behind `if (x)`, `!x`, `a || b`).
Truthy(v) ==
    CASE v.k = "undefined" -> FALSE
      [] v.k = "null" -> FALSE
      [] v.k = "string" -> v.s # <<>>
      [] v.k = "number" -> v.n # 0
      [] OTHER -> TRUE

\* a || b
Or(a, b) == IF Truthy(a) THEN a ELSE b

UpperChars == <<"A", "B", "C", "D", "E", "F", "G", "H", "I", "J", "K", "L", "M",
                "N", "O", "P", "Q", "R", "S", "T", "U", "V", "W", "X", "Y", "Z">>
LowerChars == <<"a", "b", "c", "d", "e", "f", "g", "h", "i", "j", "k", "l", "m",
                "n", "o", "p", "q", "r", "s", "t", "u", "v", "w", "x", "y", "z">>
DigitChars == {"0", "1", "2", "3", "4", "5", "6", "7", "8", "9"}

IsUpper(c) == \E i \in DOMAIN UpperChars : UpperChars[i] = c
IsDigit(c) == c \in DigitChars

LowerChar(c) ==
    IF IsUpper(c) THEN LowerChars[CHOOSE i \in DOMAIN UpperChars : UpperChars[i] = c] ELSE c

\* String.prototype.toLowerCase
toLowerCase(s) == [i \in DOMAIN s |-> LowerChar(s[i])]

RECURSIVE JoinFrom(_, _, _)
JoinFrom(strs, sep, i) ==
    IF i > Len(strs) THEN <<>>
    ELSE IF i = Len(strs) THEN strs[i]
    ELSE strs[i] \o sep \o JoinFrom(strs, sep, i + 1)

\* Array.prototype.join
join(strs, sep) == JoinFrom(strs, sep, 1)

(***************************************************************************)
(* The values the model draws its inputs from.                             *)
(***************************************************************************)
HostName == <<"h", ".", "n", "e", "t">>
EmailGood == <<"a", "@", "b">>
EmailBad == <<"a", "b">>
TokenValue == <<"t", "k">>
KeyGood == <<"T", "S", "-", "1">>
KeyNumeric == <<"1", "0">>
KeyBad == <<"T", "-", "1">>
SummaryText == <<"S", "u", "m">>
DescText == <<"h", "i">>
StatusDone == <<"d", "o", "n", "e">>
StatusOther == <<"X", "x">>
AssigneeAl == <<"a", "l">>
DocType == <<"d", "o", "c">>
ParagraphType == <<"p", "a", "r", "a", "g", "r", "a", "p", "h">>
TextType == <<"t", "e", "x", "t">>

TextLeaf(s) == Obj(Str(TextType), Undef, Undef, Str(s))
Paragraph(items) == Obj(Str(ParagraphType), Undef, Arr(items), Undef)
Doc(items) == Obj(Str(DocType), Num(1), Arr(items), Undef)

DocValid == Doc(<<Paragraph(<<TextLeaf(DescText)>>)>>)
\* a document whose paragraph holds a node with an empty type
DocBadNode == Doc(<<Paragraph(<<Obj(Str(<<>>), Undef, Undef, Undef)>>)>>)
\* an object that is no document: version 2
DocBadVersion == Obj(Str(DocType), Num(2), Arr(<<>>), Undef)

(***************************************************************************)
(* isValidADFNodeArray (adfValidationUtils)                                *)
(***************************************************************************)
\* a bug: the content of a node is checked to be an array but not descended into
isValidADFNodeArrayShallow(nodes) ==
    /\ nodes.k = "array"
    /\ \A i \in DOMAIN nodes.items :
        LET node == nodes.items[i] IN
        /\ node.k = "object"
        /\ node.type.k = "string" /\ Len(node.type.s) # 0
        /\ \/ node.content = Undef
           \/ node.content.k = "array"

RECURSIVE isValidADFNodeArray(_)
isValidADFNodeArray(nodes) ==
    /\ nodes.k = "array"
    /\ \A i \in DOMAIN nodes.items :
        LET node == nodes.items[i] IN
        /\ node.k = "object"
        /\ node.type.k = "string" /\ Len(node.type.s) # 0
        /\ \/ node.content = Undef
           \/ /\ node.content.k = "array"
              /\ isValidADFNodeArray(node.content)

(***************************************************************************)
(* toADF (utils/adfUtils)                                                  *)
(***************************************************************************)
EmptyDoc == Doc(<<Paragraph(<<>>)>>)

\* a bug: only undefined and null count as no description, the empty string is converted
toADFEmptyStringKept(description) ==
    IF description.k \in {"undefined", "null"} THEN EmptyDoc
    ELSE IF /\ description.k = "object"
            /\ description.type = Str(DocType)
            /\ description.version = Num(1)
            /\ description.content.k = "array"
         THEN description
    ELSE IF description.k = "string"
         THEN Doc(<<Paragraph(<<TextLeaf(description.s)>>)>>)
    ELSE EmptyDoc

\* a variant: the nodes of a document are validated before it is returned as is
toADFValidatingNodes(description) ==
    IF ~Truthy(description) THEN EmptyDoc
    ELSE IF /\ description.k = "object"
            /\ description.type = Str(DocType)
            /\ description.version = Num(1)
            /\ description.content.k = "array"
            /\ isValidADFNodeArray(description.content)
         THEN description
    ELSE IF description.k = "string"
         THEN Doc(<<Paragraph(<<TextLeaf(description.s)>>)>>)
    ELSE EmptyDoc

\* a bug: the branch that returns a document as it is is missing
toADFNoPassThrough(description) ==
    IF ~Truthy(description) THEN EmptyDoc
    ELSE IF description.k = "string"
         THEN Doc(<<Paragraph(<<TextLeaf(description.s)>>)>>)
    ELSE EmptyDoc

toADF(description) ==
    IF ~Truthy(description) THEN EmptyDoc
    ELSE IF /\ description.k = "object"
            /\ description.type = Str(DocType)
            /\ description.version = Num(1)
            /\ description.content.k = "array"
         THEN description
    ELSE IF description.k = "string"
         THEN Doc(<<Paragraph(<<TextLeaf(description.s)>>)>>)
    ELSE EmptyDoc

(***************************************************************************)
(* JiraUpdateIssueRequestSchema (types/index.ts 23-100)                    *)
(***************************************************************************)
\* yup.string().optional(): absent, or a string
IsOptionalString(v) == v.k \in {"undefined", "string"}

\* yup.string().email(): the empty string is excluded from the test; otherwise one
\* "@" with something on both sides
IsEmail(s) ==
    \/ s = <<>>
    \/ \E i \in 2..(Len(s) - 1) :
        /\ s[i] = "@"
        /\ \A j \in DOMAIN s : j # i => s[j] # "@"

IsKeyChar(c) == IsUpper(c) \/ IsDigit(c) \/ c = "_"

\* /^[A-Z][A-Z0-9_]+-\d+$|^\d+$/
MatchesIssueKey(s) ==
    \/ /\ Len(s) >= 1
       /\ \A j \in DOMAIN s : IsDigit(s[j])
    \/ \E i \in 3..(Len(s) - 1) :
        /\ s[i] = "-"
        /\ IsUpper(s[1])
        /\ \A j \in 2..(i - 1) : IsKeyChar(s[j])
        /\ \A j \in (i + 1)..Len(s) : IsDigit(s[j])

\* a bug: .min(1) is missing, any string passes
IsOptionalAnyLength(v) == v.k = "undefined" \/ v.k = "string"

\* yup.string().optional().min(1)
IsOptionalMin1(v) == v.k = "undefined" \/ (v.k = "string" /\ Len(v.s) >= 1)

\* the test 'is-string-or-adf' of the description field
IsStringOrADF(value) ==
    IF value.k = "undefined" \/ value.k = "string" THEN TRUE
    ELSE IF /\ value.k = "object"
            /\ value.type = Str(DocType)
            /\ value.version = Num(1)
            /\ value.content.k = "array"
         THEN isValidADFNodeArray(value.content)
    ELSE FALSE

SchemaFields ==
    <<"jiraHost", "email", "apiToken", "issueIdOrKey", "summary", "description",
      "status", "assigneeName">>

FieldValid(a, f) ==
    CASE f = "jiraHost" -> IsOptionalString(a.jiraHost)
      [] f = "email" -> IsOptionalString(a.email) /\ (a.email.k = "string" => IsEmail(a.email.s))
      [] f = "apiToken" -> IsOptionalString(a.apiToken)
      [] f = "issueIdOrKey" ->
            /\ a.issueIdOrKey.k = "string"
            /\ Len(a.issueIdOrKey.s) >= 1
            /\ MatchesIssueKey(a.issueIdOrKey.s)
      [] f = "summary" -> IsOptionalMin1(a.summary)
      [] f = "description" -> IsStringOrADF(a.description)
      [] f = "status" -> IsOptionalMin1(a.status)
      [] f = "assigneeName" -> IsOptionalMin1(a.assigneeName)

\* the paths the schema rejects, in schema order (abortEarly: false collects all)
SchemaErrors(a) == SelectSeq(SchemaFields, LAMBDA f : ~FieldValid(a, f))

\* a bug: the schema is not consulted
SchemaAcceptsAnything(a) == TRUE

SchemaAccepts(a) == SchemaErrors(a) = <<>>

(***************************************************************************)
(* Errors.  An error is a record tagged with its class; an HTTP-client     *)
(* error carries response (NoResponse when none arrived) and request.      *)
(***************************************************************************)
NoResponse == 0

ValidationError(paths) == [class |-> "ValidationError", errors |-> paths]
\* the message of the CredentialsError thrown by validateCredentials (auth.ts 34)
CredentialsMessage(missing) ==
    "Missing required Jira credentials: " \o join(missing, ", ")
        \o ". Please provide them in the request or set them as environment variables (JIRA_HOST, JIRA_EMAIL, JIRA_API_TOKEN)."

\* the error validateCredentials throws: missing is its missingFields list
CredentialsError(missing) ==
    [class |-> "CredentialsError", missing |-> missing, message |-> CredentialsMessage(missing)]
AxiosError(status, requestSent, message) ==
    [class |-> "AxiosError", response |-> status, request |-> requestSent, message |-> message]

\* an ordinary Error instance, and a thrown value that is not an Error at all
PlainError(message) == [class |-> "Error", message |-> message]
NonError(value) == [class |-> "none", value |-> value]

HttpStatuses == {404, 500}

\* what a remote call can fail with: an HTTP error response, no response at all (the
\* connection dropped, or the request timed out), or a failure before the request left
RemoteErrors ==
    {AxiosError(s, TRUE, "Request failed with status code") : s \in HttpStatuses}
    \cup {AxiosError(NoResponse, TRUE, "Network Error"),
          AxiosError(NoResponse, TRUE, "timeout exceeded"),
          AxiosError(NoResponse, FALSE, "Invalid URL")}

\* isAxiosErr (utils/errorUtils)
isAxiosErr(error) == error.class = "AxiosError"

(***************************************************************************)
(* validateCredentials (utils/auth.ts 27-37) and getJiraCredentials         *)
(***************************************************************************)
CredentialNames == <<"Jira host", "email", "API token">>

\* a bug: only the first missing credential is reported
missingFieldsFirstOnly(jiraHost, email, apiToken) ==
    IF ~Truthy(jiraHost) THEN <<"Jira host">>
    ELSE IF ~Truthy(email) THEN <<"email">>
    ELSE IF ~Truthy(apiToken) THEN <<"API token">>
    ELSE <<>>

missingFields(jiraHost, email, apiToken) ==
    SelectSeq(CredentialNames,
              LAMBDA n : \/ n = "Jira host" /\ ~Truthy(jiraHost)
                         \/ n = "email" /\ ~Truthy(email)
                         \/ n = "API token" /\ ~Truthy(apiToken))

\* the resolved triple; validateCredentials throws iff CredentialsMissing is not empty
ResolvedHost(a, e) == Or(a.jiraHost, e.JIRA_HOST)
ResolvedEmail(a, e) == Or(a.email, e.JIRA_EMAIL)
ResolvedToken(a, e) == Or(a.apiToken, e.JIRA_API_TOKEN)

CredentialsMissing(a, e) ==
    missingFields(ResolvedHost(a, e), ResolvedEmail(a, e), ResolvedToken(a, e))

(***************************************************************************)
(* createAuthHeader (utils/auth.ts 8-10): "Basic " followed by the Base64  *)
(* encoding of the bytes of email:apiToken.                                *)
(***************************************************************************)
Base64Chars == UpperChars \o LowerChars
                 \o <<"0", "1", "2", "3", "4", "5", "6", "7", "8", "9", "+", "/">>

\* the byte of a character (the characters used are all ASCII)
CharCode(c) ==
    IF IsUpper(c) THEN 64 + (CHOOSE i \in DOMAIN UpperChars : UpperChars[i] = c)
    ELSE IF \E i \in DOMAIN LowerChars : LowerChars[i] = c
         THEN 96 + (CHOOSE i \in DOMAIN LowerChars : LowerChars[i] = c)
    ELSE CASE c = " " -> 32
           [] c = "-" -> 45
           [] c = "." -> 46
           [] c = "0" -> 48
           [] c = "1" -> 49
           [] c = ":" -> 58
           [] c = "@" -> 64
           [] c = "_" -> 95

RECURSIVE Base64From(_, _)
Base64From(bytes, i) ==
    LET n == Len(bytes) - i + 1
        b1 == bytes[i]
        b2 == IF n >= 2 THEN bytes[i + 1] ELSE 0
        b3 == IF n >= 3 THEN bytes[i + 2] ELSE 0
    IN IF n <= 0 THEN <<>>
       ELSE <<Base64Chars[(b1 \div 4) + 1],
              Base64Chars[((b1 % 4) * 16 + (b2 \div 16)) + 1],
              IF n >= 2 THEN Base64Chars[((b2 % 16) * 4 + (b3 \div 64)) + 1] ELSE "=",
              IF n >= 3 THEN Base64Chars[(b3 % 64) + 1] ELSE "=">>
            \o Base64From(bytes, i + 3)

\* Buffer.from(s).toString('base64')
Base64(s) == Base64From([i \in DOMAIN s |-> CharCode(s[i])], 1)

BasicPrefix == <<"B", "a", "s", "i", "c", " ">>

createAuthHeader(email, apiToken) == BasicPrefix \o Base64(email \o <<":">> \o apiToken)

\* getJiraCredentials (206): the header string built from the resolved email and token
authHeaderOf(a, e) == createAuthHeader(ResolvedEmail(a, e).s, ResolvedToken(a, e).s)

(***************************************************************************)
(* The headers object of a request: a set of name/value properties.        *)
(***************************************************************************)
ApplicationJson ==
    <<"a", "p", "p", "l", "i", "c", "a", "t", "i", "o", "n", "/", "j", "s", "o", "n">>

Header(name, value) == [name |-> name, value |-> value]

\* { ...str }: spreading a string copies its own enumerable properties, which are its
\* characters keyed by their index (the string is evaluated once, as s)
SpreadString(str) ==
    UNION {{Header(ToString(i - 1), <<s[i]>>) : i \in DOMAIN s} : s \in {str}}

\* headers of the GETs (227, 298, 355) and of the PUT and POST (278, 335)
RequestHeaders(authHeader, method) ==
    SpreadString(authHeader)
        \cup {Header("Accept", ApplicationJson)}
        \cup (IF method \in {"PUT", "POST"} THEN {Header("Content-Type", ApplicationJson)} ELSE {})


(***************************************************************************)
(* mapErrorToResponseFormat (updateIssue.ts 398-463)                       *)
(***************************************************************************)
\* a bug: the request test of the no-response branch is inverted
ErrorCodeRequestInverted(error) ==
    IF error.class = "ValidationError" THEN "VALIDATION_ERROR"
    ELSE IF error.class = "CredentialsError" THEN "CREDENTIALS_MISSING"
    ELSE IF isAxiosErr(error) THEN
        IF error.response # NoResponse THEN
            CASE error.response = 400 -> "JIRA_BAD_REQUEST"
              [] error.response = 401 -> "JIRA_UNAUTHORIZED"
              [] error.response = 403 -> "JIRA_FORBIDDEN"
              [] error.response = 404 -> "JIRA_ISSUE_NOT_FOUND"
              [] OTHER -> "JIRA_API_ERROR"
        ELSE IF ~error.request THEN "NETWORK_ERROR"
        ELSE "AXIOS_ERROR"
    ELSE IF error.class = "Error" THEN "APPLICATION_ERROR"
    ELSE "UNKNOWN_ERROR_TYPE"

\* a bug: the switch on the status is missing, every error response gets the default code
ErrorCodeNoStatusSwitch(error) ==
    IF error.class = "ValidationError" THEN "VALIDATION_ERROR"
    ELSE IF error.class = "CredentialsError" THEN "CREDENTIALS_MISSING"
    ELSE IF isAxiosErr(error) THEN
        IF error.response # NoResponse THEN "JIRA_API_ERROR"
        ELSE IF error.request THEN "NETWORK_ERROR"
        ELSE "AXIOS_ERROR"
    ELSE IF error.class = "Error" THEN "APPLICATION_ERROR"
    ELSE "UNKNOWN_ERROR_TYPE"

\* a bug: the branch for Error instances is missing, they keep the initial code
ErrorCodeWithoutErrorBranch(error) ==
    IF error.class = "ValidationError" THEN "VALIDATION_ERROR"
    ELSE IF error.class = "CredentialsError" THEN "CREDENTIALS_MISSING"
    ELSE IF isAxiosErr(error) THEN
        IF error.response # NoResponse THEN
            CASE error.response = 400 -> "JIRA_BAD_REQUEST"
              [] error.response = 401 -> "JIRA_UNAUTHORIZED"
              [] error.response = 403 -> "JIRA_FORBIDDEN"
              [] error.response = 404 -> "JIRA_ISSUE_NOT_FOUND"
              [] OTHER -> "JIRA_API_ERROR"
        ELSE IF error.request THEN "NETWORK_ERROR"
        ELSE "AXIOS_ERROR"
    ELSE IF error.class = "Error" THEN "UNKNOWN_ERROR"
    ELSE "UNKNOWN_ERROR_TYPE"

ErrorCode(error) ==
    IF error.class = "ValidationError" THEN "VALIDATION_ERROR"
    ELSE IF error.class = "CredentialsError" THEN "CREDENTIALS_MISSING"
    ELSE IF isAxiosErr(error) THEN
        IF error.response # NoResponse THEN
            CASE error.response = 400 -> "JIRA_BAD_REQUEST"
              [] error.response = 401 -> "JIRA_UNAUTHORIZED"
              [] error.response = 403 -> "JIRA_FORBIDDEN"
              [] error.response = 404 -> "JIRA_ISSUE_NOT_FOUND"
              [] OTHER -> "JIRA_API_ERROR"
        ELSE IF error.request THEN "NETWORK_ERROR"
        ELSE "AXIOS_ERROR"
    ELSE IF error.class = "Error" THEN "APPLICATION_ERROR"
    ELSE "UNKNOWN_ERROR_TYPE"

ErrorTitle(error) ==
    IF error.class = "ValidationError" THEN "Validation Error"
    ELSE IF error.class = "CredentialsError" THEN "Authentication Error"
    ELSE IF isAxiosErr(error) THEN
        IF error.response # NoResponse THEN "Jira API Error"
        ELSE IF error.request THEN "Network Error"
        ELSE "Axios Error"
    ELSE IF error.class = "Error" THEN "Unexpected Application Error"
    ELSE "Unknown Error Type"

\* errorMessage: the fixed part of each branch's template (the interpolated Jira
\* response body, host and error text are left out); a CredentialsError's own message
ErrorMessage(error) ==
    IF error.class = "ValidationError" THEN "The provided input is invalid: "
    ELSE IF error.class = "CredentialsError" THEN error.message
    ELSE IF isAxiosErr(error) THEN
        IF error.response # NoResponse THEN "The Jira API returned an error: "
        ELSE IF error.request THEN "Could not connect to Jira host at "
        ELSE "An error occurred while setting up the API request: "
    ELSE IF error.class = "Error" THEN "An unexpected error occurred within the application."
    ELSE "An entirely unexpected and unknown type of error occurred."

DefaultSolution ==
    "Please check the details and try again. If the issue persists, ensure your Jira instance is accessible and your credentials are correct."

\* errorSolution: set per branch; the branches that leave it alone keep the default
ErrorSolution(error) ==
    IF error.class = "ValidationError"
    THEN "Please correct the input according to the validation rules and try again."
    ELSE IF error.class = "CredentialsError"
    THEN "Please ensure your Jira host, email, and API token are correctly configured either in the arguments or as environment variables (JIRA_HOST, JIRA_EMAIL, JIRA_API_TOKEN)."
    ELSE IF isAxiosErr(error) THEN
        IF error.response # NoResponse THEN
            CASE error.response = 400 -> "The request was malformed. Check the provided parameters."
              [] error.response = 401 -> "Authentication failed. Check your Jira email and API token."
              [] error.response = 403 -> "You do not have permission to perform this action on the Jira issue."
              [] error.response = 404 -> "Issue could not be found. Please verify the issue ID or key."
              [] OTHER -> "An unexpected API error occurred. Check the Jira API status or logs."
        ELSE IF error.request THEN "Please check your network connection and the Jira host URL."
        ELSE DefaultSolution
    ELSE IF error.class = "Error" THEN "Please report this error to the application maintainers."
    ELSE DefaultSolution

mapErrorToResponseFormat(error) ==
    [isError |-> TRUE,
     content |-> <<[type |-> "text",
                    text |-> [fmt |-> "error",
                              title |-> ErrorTitle(error),
                              code |-> ErrorCode(error),
                              message |-> ErrorMessage(error),
                              suggestion |-> ErrorSolution(error)]]>>]

(***************************************************************************)
(* What the remote API can answer.                                         *)
(***************************************************************************)
MaxUsers == 2
MaxTransitions == 2

User(accountId, displayName, active) ==
    [accountId |-> accountId, displayName |-> displayName, active |-> active]

UserUniverse ==
    {User(<<"u", "1">>, Str(<<"A", "l">>), FALSE),
     User(<<"u", "2">>, Str(<<"A", "L">>), TRUE),
     User(<<"u", "3">>, Str(<<"B", "o">>), TRUE),
     User(<<"u", "4">>, Undef, TRUE)}

Transition(id, toName) == [id |-> id, to |-> [name |-> toName]]

TransitionUniverse ==
    {Transition(<<"t", "1">>, <<"O", "p", "e", "n">>),
     Transition(<<"t", "2">>, <<"D", "o", "n", "e">>),
     Transition(<<"t", "3">>, <<"D", "O", "N", "E">>)}

SeqsUpTo(S, n) == UNION {[1..m -> S] : m \in 0..n}

\* the body of a user search response: an array of users, or nothing
UserSearchData == {Undef} \cup {Arr(us) : us \in SeqsUpTo(UserUniverse, MaxUsers)}

\* the body of a transitions response: {transitions: [...]}, or without the key
TransitionsData ==
    {[transitions |-> Undef]}
    \cup {[transitions |-> Arr(ts)] : ts \in SeqsUpTo(TransitionUniverse, MaxTransitions)}

Issue(statusName, assigneeName) ==
    [key |-> KeyGood, fields |-> [status |-> statusName, assignee |-> assigneeName]]

IssueData == {Issue(Str(StatusDone), Undef), Issue(Undef, Str(AssigneeAl))}

OkResponse(data) == [ok |-> TRUE, data |-> data]
ErrResponse(error) == [ok |-> FALSE, error |-> error]

\* what the log of responses keeps of a response: that it was one, or the error
Outcome(r) == IF r.ok THEN [ok |-> TRUE] ELSE r

(***************************************************************************)
(* The helpers of updateIssue.ts                                           *)
(***************************************************************************)
IndexOfFirst(s, P(_)) ==
    IF \E i \in DOMAIN s : P(s[i])
    THEN CHOOSE i \in DOMAIN s : P(s[i]) /\ \A j \in 1..(i - 1) : ~P(s[j])
    ELSE 0

\* Array.prototype.find: the first element satisfying P, or undefined
Find(s, P(_)) == IF IndexOfFirst(s, P) = 0 THEN <<>> ELSE <<s[IndexOfFirst(s, P)]>>

\* a bug: the exact match on displayName is not preferred, the first active user is taken
searchJiraUserFirstActive(data, userName) ==
    IF ~Truthy(data) \/ Len(data.items) = 0 THEN <<>>
    ELSE Find(data.items, LAMBDA u : u.active)

\* searchJiraUser (219-240), applied to the response body: <<user>> or <<>> (undefined)
searchJiraUserResult(data, userName) ==
    IF ~Truthy(data) \/ Len(data.items) = 0 THEN <<>>
    ELSE LET exactMatch ==
                 Find(data.items,
                      LAMBDA u : /\ u.displayName.k = "string"
                                 /\ toLowerCase(u.displayName.s) = toLowerCase(userName)
                                 /\ u.active)
         IN IF exactMatch # <<>> THEN exactMatch
            ELSE Find(data.items, LAMBDA u : u.active)

\* a bug: the assignee key is set whether or not an account id was resolved
buildPayloadAlwaysAssignee(summary, description, assigneeAccountId) ==
    [summary |-> IF summary # Undef THEN summary ELSE Undef,
     description |-> IF description # Undef THEN toADF(description) ELSE Undef,
     assignee |-> [k |-> "object", accountId |-> assigneeAccountId]]

\* a bug: the summary is tested for truthiness, an empty summary is dropped
buildPayloadDroppingEmptySummary(summary, description, assigneeAccountId) ==
    [summary |-> IF Truthy(summary) THEN summary ELSE Undef,
     description |-> IF description # Undef THEN toADF(description) ELSE Undef,
     assignee |-> IF Truthy(assigneeAccountId)
                  THEN [k |-> "object", accountId |-> assigneeAccountId]
                  ELSE Undef]

\* buildJiraUpdateFieldsPayload (248-257); a key that is not set is Undef
buildJiraUpdateFieldsPayload(summary, description, assigneeAccountId) ==
    [summary |-> IF summary # Undef THEN summary ELSE Undef,
     description |-> IF description # Undef THEN toADF(description) ELSE Undef,
     assignee |-> IF Truthy(assigneeAccountId)
                  THEN [k |-> "object", accountId |-> assigneeAccountId]
                  ELSE Undef]

PayloadKeys == {"summary", "description", "assignee"}

\* a bug: keys that were set to undefined are counted too
ObjectKeysCountingUndefined(fields) == PayloadKeys

\* Object.keys(fieldsToUpdate)
ObjectKeys(fields) == {key \in PayloadKeys : fields[key] # Undef}

EmptyPayload == [summary |-> Undef, description |-> Undef, assignee |-> Undef]

\* getJiraIssueTransitions (290-301), applied to the response body
transitionsOf(data) == IF Truthy(data.transitions) THEN data.transitions.items ELSE <<>>

\* a bug: the names are compared as they are, without toLowerCase
findTargetTransitionExactCase(transitions, targetStatusName) ==
    Find(transitions, LAMBDA t : t.to.name = targetStatusName)

\* findTargetTransition (309-314): <<transition>> or <<>> (undefined)
findTargetTransition(transitions, targetStatusName) ==
    Find(transitions, LAMBDA t : toLowerCase(t.to.name) = toLowerCase(targetStatusName))

NoneAvailable == <<"N", "o", "n", "e", " ", "a", "v", "a", "i", "l", "a", "b", "l", "e">>

\* a bug: only the first transition is listed
availableTransitionsFirstOnly(transitions) ==
    IF transitions # <<>> THEN transitions[1].to.name ELSE NoneAvailable

\* transitions.map(t => t.to.name).join(', ') || "None available" (134)
availableTransitions(transitions) ==
    LET joined == join([i \in DOMAIN transitions |-> transitions[i].to.name], <<",", " ">>)
    IN IF joined # <<>> THEN joined ELSE NoneAvailable

\* the message of a caught error (101, 138); remote calls fail with HTTP-client errors
caughtMessage(error, fallback) ==
    IF isAxiosErr(error) THEN error.message
    ELSE IF error.class = "Error" THEN error.message
    ELSE fallback

\* the lines pushed to updatedFieldsMessages
WarnAssigneeNotFound(name) == [line |-> "WarningAssigneeNotFound", name |-> name]
WarnAssigneeSearchError(name, message) ==
    [line |-> "WarningAssigneeSearchError", name |-> name, message |-> message]
WarnAssigneeNoOtherUpdates(name) == [line |-> "WarningAssigneeNoOtherUpdates", name |-> name]
SummaryUpdated == [line |-> "SummaryUpdated"]
DescriptionUpdated == [line |-> "DescriptionUpdated"]
AssigneeUpdated == [line |-> "AssigneeUpdated"]
StatusChanged(toName) == [line |-> "StatusChanged", to |-> toName]
WarnStatusNotAvailable(status, available) ==
    [line |-> "WarningStatusNotAvailable", status |-> status, available |-> available]
WarnTransitionError(message) == [line |-> "WarningTransitionError", message |-> message]

\* a bug: all three change lines are pushed whatever the payload held
fieldMessagesAll(fields) == <<SummaryUpdated, DescriptionUpdated, AssigneeUpdated>>

\* the lines pushed after the fields PUT succeeded (119-121)
fieldMessages(fields) ==
    (IF fields.summary # Undef THEN <<SummaryUpdated>> ELSE <<>>)
    \o (IF fields.description # Undef THEN <<DescriptionUpdated>> ELSE <<>>)
    \o (IF fields.assignee # Undef THEN <<AssigneeUpdated>> ELSE <<>>)

NoOpText ==
    [fmt |-> "plain", text |-> "No update parameters provided. No changes made to the issue."]

\* formatSuccessResponseMessage (367-386)
formatSuccessResponseMessage(updatedIssue, messages) ==
    [fmt |-> "success",
     key |-> updatedIssue.key,
     changed |-> messages,
     status |-> updatedIssue.fields.status,
     assignee |-> updatedIssue.fields.assignee]

ToolResult(text, isError) == [isError |-> isError, content |-> <<[type |-> "text", text |-> text]>>]

(***************************************************************************)
(* One invocation of updateIssue (71-182)                                  *)
(***************************************************************************)
VARIABLES
    args,                   \* the argument bag of the invocation
    env,                    \* process.env
    pc,                     \* the step the invocation is at
    assigneeAccountId,      \* local of step 4
    fieldsToUpdate,         \* local of step 5
    targetTransition,       \* local of step 7, <<>> until a transition is found
    updatedFieldsMessages,  \* the change and warning lines accumulated
    calls,                  \* the remote calls issued, in order
    responses,              \* responses[i] is how calls[i] ended: ok, or its error
    transitions,            \* local of step 7, the transitions fetched
    classified,             \* the errors handed to mapErrorToResponseFormat, with the step
    result                  \* <<>> until updateIssue returns, then <<its return value>>

vars ==
    <<args, env, pc, assigneeAccountId, fieldsToUpdate, transitions, targetTransition,
      updatedFieldsMessages, calls, responses, classified, result>>

ArgsSet ==
    [jiraHost : {Undef, Str(HostName)},
     email : {Undef, Str(EmailBad)},
     apiToken : {Undef},
     issueIdOrKey : {Undef, Str(KeyGood), Str(KeyBad)},
     summary : {Undef, Str(<<>>), Str(SummaryText)},
     description : {Undef, Str(DescText), DocValid, DocBadNode},
     status : {Undef, Str(<<>>), Str(StatusDone), Str(StatusOther)},
     assigneeName : {Undef, Str(<<>>), Str(AssigneeAl)}]

EnvSet ==
    [JIRA_HOST : {Undef, Str(HostName)},
     JIRA_EMAIL : {Str(EmailGood)},
     JIRA_API_TOKEN : {Undef, Str(TokenValue)}]

Init ==
    /\ args \in ArgsSet
    /\ env \in EnvSet
    /\ pc = "validate"
    /\ assigneeAccountId = Undef
    /\ fieldsToUpdate = EmptyPayload
    /\ transitions = <<>>
    /\ targetTransition = <<>>
    /\ updatedFieldsMessages = <<>>
    /\ calls = <<>>
    /\ responses = <<>>
    /\ classified = <<>>
    /\ result = <<>>

Call(endpoint, method, body) ==
    [endpoint |-> endpoint, method |-> method, body |-> body,
     headers |-> RequestHeaders(authHeaderOf(args, env), method)]

\* an axios call leaves the client
Issue_(call, next) ==
    /\ calls' = Append(calls, call)
    /\ pc' = next

\* a bug: a failed fields PUT is reported but the remaining steps still run
CatchWithoutAbort(error, step) ==
    /\ classified' = Append(classified, [step |-> step, error |-> error])
    /\ result' = <<mapErrorToResponseFormat(error)>>
    /\ pc' = IF step = "fields" THEN "status" ELSE "done"

\* the catch of 167-181: the error is classified and the result returned
Catch(error, step) ==
    /\ classified' = Append(classified, [step |-> step, error |-> error])
    /\ result' = <<mapErrorToResponseFormat(error)>>
    /\ pc' = "done"

\* return of 146-149 and 162-165
Return(value) ==
    /\ result' = <<value>>
    /\ pc' = "done"

\* step 1 (78): JiraUpdateIssueRequestSchema.validate
Validate ==
    /\ pc = "validate"
    /\ IF SchemaAccepts(args)
       THEN /\ pc' = "credentials"
            /\ UNCHANGED <<classified, result>>
       ELSE Catch(ValidationError(SchemaErrors(args)), "validate")
    /\ UNCHANGED <<args, env, assigneeAccountId, fieldsToUpdate, transitions, targetTransition,
                   updatedFieldsMessages, calls, responses>>

\* step 2 (82): getJiraCredentials
GetCredentials ==
    /\ pc = "credentials"
    /\ IF CredentialsMissing(args, env) = <<>>
       THEN /\ pc' = "assignee"
            /\ UNCHANGED <<classified, result>>
       ELSE Catch(CredentialsError(CredentialsMissing(args, env)), "credentials")
    /\ UNCHANGED <<args, env, assigneeAccountId, fieldsToUpdate, transitions, targetTransition,
                   updatedFieldsMessages, calls, responses>>

\* step 4 (90-92): the user search GET is issued iff assigneeName is given
HandleAssignee ==
    /\ pc = "assignee"
    /\ IF Truthy(args.assigneeName)
       THEN Issue_(Call("userSearch", "GET", args.assigneeName), "awaitUserSearch")
       ELSE /\ pc' = "build"
            /\ UNCHANGED calls
    /\ UNCHANGED <<args, env, assigneeAccountId, fieldsToUpdate, transitions, targetTransition,
                   updatedFieldsMessages, responses, classified, result>>

\* a bug: a failed user search is not caught in step 4 and reaches the catch of 167
UserSearchReturnsUncaught ==
    /\ pc = "awaitUserSearch"
    /\ \E r \in {OkResponse(d) : d \in UserSearchData} \cup {ErrResponse(e) : e \in RemoteErrors} :
        /\ responses' = Append(responses, Outcome(r))
        /\ IF r.ok
           THEN LET assignee == searchJiraUserResult(r.data, args.assigneeName.s)
                IN /\ IF assignee # <<>>
                      THEN /\ assigneeAccountId' = Str(assignee[1].accountId)
                           /\ UNCHANGED updatedFieldsMessages
                      ELSE /\ updatedFieldsMessages' =
                                 Append(updatedFieldsMessages,
                                        WarnAssigneeNotFound(args.assigneeName.s))
                           /\ UNCHANGED assigneeAccountId
                   /\ pc' = "build"
                   /\ UNCHANGED <<classified, result>>
           ELSE /\ classified' = Append(classified, [step |-> "assignee", error |-> r.error])
                /\ result' = <<mapErrorToResponseFormat(r.error)>>
                /\ pc' = "done"
                /\ UNCHANGED <<assigneeAccountId, updatedFieldsMessages>>
    /\ UNCHANGED <<args, env, fieldsToUpdate, transitions, targetTransition, calls>>

\* step 4 (92-103): the user search answers, or fails
UserSearchReturns ==
    /\ pc = "awaitUserSearch"
    /\ \E r \in {OkResponse(d) : d \in UserSearchData} \cup {ErrResponse(e) : e \in RemoteErrors} :
        /\ responses' = Append(responses, Outcome(r))
        /\ IF r.ok
           THEN LET assignee == searchJiraUserResult(r.data, args.assigneeName.s)
                IN IF assignee # <<>>
                   THEN /\ assigneeAccountId' = Str(assignee[1].accountId)
                        /\ UNCHANGED updatedFieldsMessages
                   ELSE /\ updatedFieldsMessages' =
                              Append(updatedFieldsMessages, WarnAssigneeNotFound(args.assigneeName.s))
                        /\ UNCHANGED assigneeAccountId
           ELSE /\ updatedFieldsMessages' =
                      Append(updatedFieldsMessages,
                             WarnAssigneeSearchError(
                                 args.assigneeName.s,
                                 caughtMessage(r.error, "Unknown error during assignee search")))
                /\ UNCHANGED assigneeAccountId
    /\ pc' = "build"
    /\ UNCHANGED <<args, env, fieldsToUpdate, transitions, targetTransition, calls, classified, result>>

\* step 5 (107-114)
BuildPayload ==
    /\ pc = "build"
    /\ fieldsToUpdate' =
           buildJiraUpdateFieldsPayload(args.summary, args.description, assigneeAccountId)
    /\ pc' = "fields"
    /\ UNCHANGED <<args, env, assigneeAccountId, transitions, targetTransition, updatedFieldsMessages,
                   calls, responses, classified, result>>

\* a bug: the fields PUT is not awaited, step 7 starts while it is in flight
UpdateFieldsNotAwaited ==
    /\ pc = "fields"
    /\ IF Cardinality(ObjectKeys(fieldsToUpdate)) > 0
       THEN Issue_(Call("issue", "PUT", [fields |-> fieldsToUpdate]), "status")
       ELSE /\ pc' = "status"
            /\ UNCHANGED calls
    /\ UNCHANGED <<args, env, assigneeAccountId, fieldsToUpdate, transitions, targetTransition,
                   updatedFieldsMessages, responses, classified, result>>

\* step 6 (117-118): the fields PUT is issued iff the payload has a key
UpdateFields ==
    /\ pc = "fields"
    /\ IF Cardinality(ObjectKeys(fieldsToUpdate)) > 0
       THEN Issue_(Call("issue", "PUT", [fields |-> fieldsToUpdate]), "awaitPut")
       ELSE /\ pc' = "status"
            /\ UNCHANGED calls
    /\ UNCHANGED <<args, env, assigneeAccountId, fieldsToUpdate, transitions, targetTransition,
                   updatedFieldsMessages, responses, classified, result>>

\* a bug: a failed fields PUT is tried a second time before the failure is reported
PutReturnsRetrying ==
    /\ pc = "awaitPut"
    /\ \E r \in {OkResponse(Undef)} \cup {ErrResponse(e) : e \in RemoteErrors} :
        /\ responses' = Append(responses, Outcome(r))
        /\ IF r.ok
           THEN /\ updatedFieldsMessages' = updatedFieldsMessages \o fieldMessages(fieldsToUpdate)
                /\ pc' = "status"
                /\ UNCHANGED <<classified, result>>
           ELSE /\ IF Len(responses) < 2
                   THEN pc' = "fields" /\ UNCHANGED <<classified, result>>
                   ELSE Catch(r.error, "fields")
                /\ UNCHANGED updatedFieldsMessages
    /\ UNCHANGED <<args, env, assigneeAccountId, fieldsToUpdate, transitions, targetTransition, calls>>

\* step 6 (118-121): the PUT answers, or fails and the invocation is over
PutReturns ==
    /\ pc = "awaitPut"
    /\ \E r \in {OkResponse(Undef)} \cup {ErrResponse(e) : e \in RemoteErrors} :
        /\ responses' = Append(responses, Outcome(r))
        /\ IF r.ok
           THEN /\ updatedFieldsMessages' = updatedFieldsMessages \o fieldMessages(fieldsToUpdate)
                /\ pc' = "status"
                /\ UNCHANGED <<classified, result>>
           ELSE /\ Catch(r.error, "fields")
                /\ UNCHANGED updatedFieldsMessages
    /\ UNCHANGED <<args, env, assigneeAccountId, fieldsToUpdate, transitions, targetTransition, calls>>

\* step 7 (125-127): the transitions GET is issued iff a status is given
HandleStatus ==
    /\ pc = "status"
    /\ IF Truthy(args.status)
       THEN Issue_(Call("transitions", "GET", Undef), "awaitTransitions")
       ELSE /\ pc' = "check"
            /\ UNCHANGED calls
    /\ UNCHANGED <<args, env, assigneeAccountId, fieldsToUpdate, transitions, targetTransition,
                   updatedFieldsMessages, responses, classified, result>>

\* step 7 (127-140): the transitions answer; the target is looked up and the POST issued
TransitionsReturn ==
    /\ pc = "awaitTransitions"
    /\ \E r \in {OkResponse(d) : d \in TransitionsData} \cup {ErrResponse(e) : e \in RemoteErrors} :
        /\ responses' = Append(responses, Outcome(r))
        /\ IF r.ok
           THEN LET target == findTargetTransition(transitionsOf(r.data), args.status.s)
                IN /\ transitions' = transitionsOf(r.data)
                   /\ IF target # <<>>
                      THEN /\ targetTransition' = target
                           /\ Issue_(Call("transitions", "POST",
                                          [transition |-> [id |-> target[1].id]]),
                                     "awaitPost")
                           /\ UNCHANGED updatedFieldsMessages
                      ELSE /\ updatedFieldsMessages' =
                                 Append(updatedFieldsMessages,
                                        WarnStatusNotAvailable(
                                            args.status.s,
                                            availableTransitions(transitionsOf(r.data))))
                           /\ pc' = "check"
                           /\ UNCHANGED <<targetTransition, calls>>
           ELSE /\ updatedFieldsMessages' =
                      Append(updatedFieldsMessages,
                             WarnTransitionError(
                                 caughtMessage(r.error, "Unknown error during status transition")))
                /\ pc' = "check"
                /\ UNCHANGED <<transitions, targetTransition, calls>>
    /\ UNCHANGED <<args, env, assigneeAccountId, fieldsToUpdate, classified, result>>

\* a bug: a failed transition POST is not caught in step 7 and reaches the catch of 167
PostReturnsUncaught ==
    /\ pc = "awaitPost"
    /\ \E r \in {OkResponse(Undef)} \cup {ErrResponse(e) : e \in RemoteErrors} :
        /\ responses' = Append(responses, Outcome(r))
        /\ IF r.ok
           THEN /\ updatedFieldsMessages' =
                      Append(updatedFieldsMessages, StatusChanged(targetTransition[1].to.name))
                /\ pc' = "check"
                /\ UNCHANGED <<classified, result>>
           ELSE /\ classified' = Append(classified, [step |-> "status", error |-> r.error])
                /\ result' = <<mapErrorToResponseFormat(r.error)>>
                /\ pc' = "done"
                /\ UNCHANGED updatedFieldsMessages
    /\ UNCHANGED <<args, env, assigneeAccountId, fieldsToUpdate, transitions, targetTransition,
                   calls>>

\* step 7 (131-140): the transition POST answers, or fails
PostReturns ==
    /\ pc = "awaitPost"
    /\ \E r \in {OkResponse(Undef)} \cup {ErrResponse(e) : e \in RemoteErrors} :
        /\ responses' = Append(responses, Outcome(r))
        /\ updatedFieldsMessages' =
               Append(updatedFieldsMessages,
                      IF r.ok
                      THEN StatusChanged(targetTransition[1].to.name)
                      ELSE WarnTransitionError(
                               caughtMessage(r.error, "Unknown error during status transition")))
    /\ pc' = "check"
    /\ UNCHANGED <<args, env, assigneeAccountId, fieldsToUpdate, transitions, targetTransition, calls,
                   classified, result>>

\* a bug: the no-op test forgets the fields payload
nothingRequestedIgnoringFields(fields, a) ==
    /\ ~Truthy(a.status)
    /\ ~Truthy(a.assigneeName)

\* the test of step 8 (145): nothing was updated, and nothing was asked for
nothingRequested(fields, a) ==
    /\ Cardinality(ObjectKeys(fields)) = 0
    /\ ~Truthy(a.status)
    /\ ~Truthy(a.assigneeName)

\* steps 8 and 9 (145-158): the no-op return, or the final issue GET is issued
CheckAction ==
    /\ pc = "check"
    /\ IF nothingRequested(fieldsToUpdate, args)
       THEN /\ Return(ToolResult(NoOpText, FALSE))
            /\ UNCHANGED <<updatedFieldsMessages, calls>>
       ELSE /\ updatedFieldsMessages' =
                  IF /\ Len(updatedFieldsMessages) = 0
                     /\ Truthy(args.assigneeName)
                     /\ Cardinality(ObjectKeys(fieldsToUpdate)) = 0
                     /\ ~Truthy(args.status)
                  THEN Append(updatedFieldsMessages,
                              WarnAssigneeNoOtherUpdates(args.assigneeName.s))
                  ELSE updatedFieldsMessages
            /\ Issue_(Call("issue", "GET", Undef), "awaitIssue")
            /\ UNCHANGED result
    /\ UNCHANGED <<args, env, assigneeAccountId, fieldsToUpdate, transitions, targetTransition,
                   responses, classified>>

\* steps 9 and 10 (158-165): the issue answers and the report is returned, or it fails
IssueReturns ==
    /\ pc = "awaitIssue"
    /\ \E r \in {OkResponse(d) : d \in IssueData} \cup {ErrResponse(e) : e \in RemoteErrors} :
        /\ responses' = Append(responses, Outcome(r))
        /\ IF r.ok
           THEN /\ Return(ToolResult(
                       formatSuccessResponseMessage(r.data, updatedFieldsMessages), FALSE))
                /\ UNCHANGED classified
           ELSE Catch(r.error, "fetch")
    /\ UNCHANGED <<args, env, assigneeAccountId, fieldsToUpdate, transitions, targetTransition,
                   updatedFieldsMessages, calls>>

Next ==
    \/ Validate
    \/ GetCredentials
    \/ HandleAssignee
    \/ UserSearchReturns
    \/ BuildPayload
    \/ UpdateFields
    \/ PutReturns
    \/ HandleStatus
    \/ TransitionsReturn
    \/ PostReturns
    \/ CheckAction
    \/ IssueReturns

Spec == Init /\ [][Next]_vars

(***************************************************************************)
(* What the properties below speak of.                                     *)
(***************************************************************************)
Done == pc = "done"
Failed == result # <<>> /\ result[1].isError
ResultCode == result[1].content[1].text.code

InputAccepted == SchemaErrors(args) = <<>> /\ CredentialsMissing(args, env) = <<>>

CallsTo(endpoint, method) ==
    {i \in DOMAIN calls : calls[i].endpoint = endpoint /\ calls[i].method = method}

UserSearchCalls == CallsTo("userSearch", "GET")
PutCalls == CallsTo("issue", "PUT")
TransitionsGetCalls == CallsTo("transitions", "GET")
TransitionPostCalls == CallsTo("transitions", "POST")
IssueGetCalls == CallsTo("issue", "GET")

Answered(i) == i \in DOMAIN responses
Succeeded(i) == Answered(i) /\ responses[i].ok
FailedCall(i) == Answered(i) /\ ~responses[i].ok

\* the remote mutations that succeeded
MutationsApplied == {i \in PutCalls \cup TransitionPostCalls : Succeeded(i)}

\* the request was sent and no response arrived: a timeout or a dropped connection
NetworkFailure(i) ==
    /\ FailedCall(i)
    /\ responses[i].error.response = NoResponse
    /\ responses[i].error.request

Lines(kind) == {j \in DOMAIN updatedFieldsMessages : updatedFieldsMessages[j].line = kind}

ClassifiedSteps == {classified[j].step : j \in DOMAIN classified}

\* the steps that lie after step 6
AfterFields == {"awaitPut", "status", "awaitTransitions", "awaitPost", "check", "awaitIssue", "done"}
\* the steps that lie after step 7
AfterStatus == {"check", "awaitIssue", "done"}

NoOptionalField ==
    /\ args.summary = Undef
    /\ args.description = Undef
    /\ args.status = Undef
    /\ args.assigneeName = Undef

C2_PutIffPayload ==
    /\ Cardinality(PutCalls) <= 1
    /\ \A i \in PutCalls :
        \E key \in PayloadKeys : calls[i].body.fields[key] # Undef
    /\ pc \in AfterFields =>
        (Cardinality(PutCalls) = 1 <=>
            /\ InputAccepted
            /\ \/ args.summary # Undef
               \/ args.description # Undef
               \/ assigneeAccountId # Undef)

C2_Witness ==
    /\ Done
    /\ InputAccepted
    /\ PutCalls = {}
    /\ Truthy(args.assigneeName)
    /\ Truthy(args.status)

\* C3: no remote call is issued before schema validation and credential resolution
\* have both succeeded; if either fails the invocation ends with isError = true and
\* zero remote calls.
C3_NoCallBeforeGate ==
    /\ calls # <<>> => InputAccepted /\ pc \notin {"validate", "credentials"}
    /\ (Done /\ ~InputAccepted) => (Failed /\ calls = <<>>)
    /\ (pc = "credentials") => SchemaErrors(args) = <<>>

C3_Witness == Done /\ SchemaErrors(args) = <<>> /\ CredentialsMissing(args, env) # <<>> /\ Failed

\* the user search was answered and gave no user, or failed
LookupFailed ==
    \E i \in UserSearchCalls :
        \/ FailedCall(i)
        \/ Succeeded(i) /\ assigneeAccountId = Undef

NoTransitionMatches ==
    /\ \E i \in TransitionsGetCalls : Succeeded(i)
    /\ \A n \in DOMAIN transitions :
        toLowerCase(transitions[n].to.name) # toLowerCase(args.status.s)

RECURSIVE NamesListed(_, _)
\* the to.name of the first n transitions, each after the first preceded by ", "
NamesListed(ts, n) ==
    IF n = 0 THEN <<>>
    ELSE IF n = 1 THEN ts[1].to.name
    ELSE NamesListed(ts, n - 1) \o <<",", " ">> \o ts[n].to.name

C6_FinalGetAfterMutation ==
    (Done /\ MutationsApplied # {}) =>
        /\ Len(responses) = Len(calls)
        /\ \E g \in IssueGetCalls :
            /\ \A i \in MutationsApplied : i < g
            /\ g = Len(calls)
            /\ FailedCall(g) => (Failed /\ result[1].content[1].text.fmt = "error")
            /\ Succeeded(g) => result[1].content[1].text.fmt = "success"

C6_Witness ==
    /\ Done
    /\ \E i \in PutCalls : Succeeded(i)
    /\ \E i \in TransitionPostCalls : Succeeded(i)
    /\ \E g \in IssueGetCalls : FailedCall(g)

\* C7 as stated: whenever an invocation ends Failed because of a validation, credential
\* or network error, no remote mutation has been applied by that invocation.
C7_AsStated ==
    (Done /\ Failed /\ ResultCode \in {"VALIDATION_ERROR", "CREDENTIALS_MISSING", "NETWORK_ERROR"}) =>
        MutationsApplied = {}

\* C7 amended: an invocation that ends Failed in validation, in credential resolution
\* or in the fields PUT has had no remote mutation succeed; an invocation that ends
\* Failed after a mutation succeeded failed in the final issue GET, which is then its
\* last call.
C7_FailedBeforeMutationUnlessFinalGet ==
    Failed =>
        /\ Len(classified) >= 1
        /\ classified[Len(classified)].step \in {"validate", "credentials", "fields"} =>
            MutationsApplied = {}
        /\ MutationsApplied # {} =>
            /\ classified[Len(classified)].step = "fetch"
            /\ Len(calls) \in IssueGetCalls
            /\ FailedCall(Len(calls))

C7_Witness ==
    /\ Done
    /\ Failed
    /\ ResultCode = "NETWORK_ERROR"
    /\ \E i \in PutCalls : Succeeded(i)
    /\ \E i \in TransitionPostCalls : Succeeded(i)

\* C8 as stated: whenever a status is requested and validation and credentials
\* succeeded, the transitions GET is issued whatever the outcome of the fields PUT.
C8_AsStated ==
    (Done /\ InputAccepted /\ Truthy(args.status)) => TransitionsGetCalls # {}

\* C8 amended: whenever a status is requested and validation and credentials succeeded,
\* the transitions GET is issued exactly once if the fields PUT was not issued or
\* succeeded, whatever the outcome of the assignee lookup, and is not issued if the
\* fields PUT failed.
C8_TransitionsGetUnlessPutFailed ==
    (pc \in AfterStatus /\ Truthy(args.status) /\ InputAccepted) =>
        IF \E i \in PutCalls : FailedCall(i)
        THEN TransitionsGetCalls = {} /\ Done /\ Failed
        ELSE Cardinality(TransitionsGetCalls) = 1

C8_Witness ==
    /\ Done
    /\ Truthy(args.status)
    /\ \E i \in PutCalls : FailedCall(i)
    /\ \E i \in UserSearchCalls : Succeeded(i)

\* the calls of the assignee step and of the status step
SwallowingCalls == UserSearchCalls \cup TransitionsGetCalls \cup TransitionPostCalls

C10_AsStated ==
    \A i \in DOMAIN calls :
        NetworkFailure(i) => (Done /\ Failed /\ ResultCode = "NETWORK_ERROR" /\ i = Len(calls))

\* C10 amended: a timeout or transient failure of the fields PUT or of the final issue
\* GET makes the invocation end immediately with isError = true and code
\* NETWORK_ERROR; the same failure of the user search GET, the transitions GET or the
\* transition POST is recorded as a warning line and the invocation goes on.
C10_NetworkFailureFatalForPutAndFinalGet ==
    \A i \in DOMAIN calls :
        NetworkFailure(i) =>
            IF i \in PutCalls \cup IssueGetCalls
            THEN Done /\ Failed /\ ResultCode = "NETWORK_ERROR" /\ i = Len(calls)
            ELSE /\ \E j \in Lines("WarningAssigneeSearchError") \cup Lines("WarningTransitionError") :
                    updatedFieldsMessages[j].message = responses[i].error.message
                 /\ Len(responses) = i => (~Done /\ result = <<>>)

C10_Witness ==
    /\ Done
    /\ \E i \in UserSearchCalls : NetworkFailure(i)
    /\ \E i \in PutCalls : NetworkFailure(i)

(***************************************************************************)
(* The exported helpers called on their own: one call of                   *)
(* mapErrorToResponseFormat, getJiraCredentials, toADF or searchJiraUser.  *)
(* args holds the function called and its arguments, result what the call  *)
(* ended with; the locals of updateIssue keep their initial values.        *)
(***************************************************************************)
Returned(value) == [outcome |-> "returned", value |-> value]
Thrown(error) == [outcome |-> "thrown", error |-> error]

Blank == <<" ">>

ClassifiedStatuses == {400, 401, 403, 404, 409, 500}

\* the non-empty lists validateCredentials can put in its error
MissingLists ==
    {missingFields(h, m, t) : h \in {Undef, Str(HostName)}, m \in {Undef, Str(EmailGood)},
                              t \in {Undef, Str(TokenValue)}} \ {<<>>}

ErrorUniverse ==
    {ValidationError(<<"issueIdOrKey">>), ValidationError(<<"summary", "status">>)}
    \cup {CredentialsError(m) : m \in MissingLists}
    \cup {AxiosError(st, TRUE, "Request failed with status code") : st \in ClassifiedStatuses}
    \cup {AxiosError(NoResponse, TRUE, "Network Error"),
          AxiosError(NoResponse, TRUE, "timeout exceeded"),
          AxiosError(NoResponse, FALSE, "Invalid URL")}
    \cup {PlainError("boom"), PlainError("")}
    \cup {NonError(Str(DescText)), NonError(Undef), NonError(Null), NonError(Num(1))}

CredentialArgs ==
    [jiraHost : {Undef, Str(<<>>), Str(Blank), Str(HostName)},
     email : {Undef, Str(<<>>), Str(Blank), Str(EmailBad)},
     apiToken : {Undef, Str(<<>>), Str(Blank), Str(TokenValue)}]

CredentialEnv ==
    [JIRA_HOST : {Undef, Str(HostName)},
     JIRA_EMAIL : {Undef, Str(EmailGood)},
     JIRA_API_TOKEN : {Undef, Str(<<>>), Str(Blank)}]

NoEnv == [JIRA_HOST |-> Undef, JIRA_EMAIL |-> Undef, JIRA_API_TOKEN |-> Undef]

\* what toADF can be handed: nothing, strings, documents, and objects that are none
DescriptionUniverse ==
    {Undef, Null, Num(0), Num(1), Arr(<<>>),
     Str(<<>>), Str(Blank), Str(DescText), Str(DocType),
     DocValid, DocBadNode, DocBadVersion, EmptyDoc, Doc(<<>>),
     Doc(<<Obj(Undef, Undef, Undef, Undef)>>),
     Doc(<<Paragraph(<<TextLeaf(DescText), TextLeaf(<<>>)>>)>>),
     Obj(Str(DocType), Num(1), Undef, Undef),
     Obj(Str(DocType), Num(1), Str(DescText), Undef),
     Obj(Str(DocType), Undef, Arr(<<>>), Undef),
     Obj(Str(ParagraphType), Num(1), Arr(<<>>), Undef),
     Obj(Undef, Undef, Undef, Undef),
     Paragraph(<<TextLeaf(DescText)>>),
     TextLeaf(DescText)}

UserNames == {AssigneeAl, <<"B", "O">>, <<"z">>}

UserSearchResponses ==
    {OkResponse(d) : d \in UserSearchData} \cup {ErrResponse(e) : e \in RemoteErrors}

AccountIds == {Undef, Str(<<>>), Str(<<"u", "1">>)}

\* the arguments of buildJiraUpdateFieldsPayload
PayloadArgs ==
    [summary : {Undef, Str(<<>>), Str(SummaryText)},
     description : {Undef, Null, Str(<<>>), Str(DescText), DocValid, DocBadNode},
     assigneeAccountId : AccountIds]

\* what isValidADFNodeArray can be handed: arrays of good and bad nodes, and no array
NodeUniverse ==
    {TextLeaf(DescText), Paragraph(<<>>), Paragraph(<<TextLeaf(DescText)>>),
     Paragraph(<<Paragraph(<<TextLeaf(DescText)>>)>>),
     Paragraph(<<Paragraph(<<Obj(Str(<<>>), Undef, Undef, Undef)>>)>>),
     Paragraph(<<TextLeaf(DescText), Null>>),
     Obj(Str(<<>>), Undef, Undef, Undef),
     Obj(Undef, Undef, Arr(<<>>), Undef),
     Obj(Num(1), Undef, Undef, Undef),
     Obj(Str(ParagraphType), Undef, Null, Undef),
     Obj(Str(ParagraphType), Undef, Str(DescText), Undef),
     Obj(Str(ParagraphType), Undef, TextLeaf(DescText), Undef),
     Null, Str(DescText), Num(1), Arr(<<>>)}

MaxNodes == 2

NodeArrayUniverse ==
    {Arr(ns) : ns \in SeqsUpTo(NodeUniverse, MaxNodes)}
        \cup {Undef, Null, Str(DescText), Paragraph(<<>>)}

\* what the description test of the schema can be handed
DescriptionTestUniverse ==
    DescriptionUniverse
        \cup {Obj(Str(DocType), Num(1), c, Undef) : c \in NodeArrayUniverse}

InitHelpers ==
    /\ \/ /\ args \in {[fn |-> "mapErrorToResponseFormat", error |-> e] : e \in ErrorUniverse}
          /\ env = NoEnv
       \/ /\ args \in {[fn |-> "getJiraCredentials", jiraHost |-> a.jiraHost, email |-> a.email,
                         apiToken |-> a.apiToken] : a \in CredentialArgs}
          /\ env \in CredentialEnv
       \/ /\ args \in {[fn |-> "toADF", description |-> d] : d \in DescriptionUniverse}
          /\ env = NoEnv
       \/ /\ args \in {[fn |-> "searchJiraUser", response |-> r, userName |-> n] :
                             r \in UserSearchResponses, n \in UserNames}
          /\ env = NoEnv
       \/ /\ args \in {[fn |-> "buildJiraUpdateFieldsPayload", summary |-> a.summary,
                         description |-> a.description,
                         assigneeAccountId |-> a.assigneeAccountId] : a \in PayloadArgs}
          /\ env = NoEnv
       \/ /\ args \in {[fn |-> "updateJiraIssueFields", authHeader |-> createAuthHeader(EmailGood, TokenValue),
                         fieldsPayload |-> buildJiraUpdateFieldsPayload(a.summary, a.description,
                                                                        a.assigneeAccountId)] :
                             a \in PayloadArgs}
          /\ env = NoEnv
       \/ /\ args \in {[fn |-> "isValidADFNodeArray", nodes |-> ns] : ns \in NodeArrayUniverse}
          /\ env = NoEnv
       \/ /\ args \in {[fn |-> "is-string-or-adf", value |-> v] : v \in DescriptionTestUniverse}
          /\ env = NoEnv
    /\ pc = "called"
    /\ assigneeAccountId = Undef
    /\ fieldsToUpdate = EmptyPayload
    /\ transitions = <<>>
    /\ targetTransition = <<>>
    /\ updatedFieldsMessages = <<>>
    /\ calls = <<>>
    /\ responses = <<>>
    /\ classified = <<>>
    /\ result = <<>>

\* the call ends: it returned a value or threw
Ends(outcome) ==
    /\ pc = "called"
    /\ result' = <<outcome>>
    /\ pc' = "ended"
    /\ UNCHANGED <<args, env, assigneeAccountId, fieldsToUpdate, transitions, targetTransition,
                   updatedFieldsMessages, calls, responses, classified>>

\* mapErrorToResponseFormat (398-463) never throws
CallMapError ==
    /\ args.fn = "mapErrorToResponseFormat"
    /\ Ends(Returned(mapErrorToResponseFormat(args.error)))

\* getJiraCredentials (195-208): validateCredentials throws, or the four values return
CallGetJiraCredentials ==
    /\ args.fn = "getJiraCredentials"
    /\ IF CredentialsMissing(args, env) = <<>>
       THEN Ends(Returned([jiraHost |-> ResolvedHost(args, env),
                           email |-> ResolvedEmail(args, env),
                           apiToken |-> ResolvedToken(args, env),
                           authHeader |-> Str(authHeaderOf(args, env))]))
       ELSE Ends(Thrown(CredentialsError(CredentialsMissing(args, env))))

\* toADF (adfUtils 6-37)
CallToADF ==
    /\ args.fn = "toADF"
    /\ Ends(Returned(toADF(args.description)))

\* searchJiraUser (219-240): a failed GET rejects, an answered one is searched
CallSearchJiraUser ==
    /\ args.fn = "searchJiraUser"
    /\ IF args.response.ok
       THEN Ends(Returned(searchJiraUserResult(args.response.data, args.userName)))
       ELSE Ends(Thrown(args.response.error))

\* buildJiraUpdateFieldsPayload (248-257)
CallBuildPayload ==
    /\ args.fn = "buildJiraUpdateFieldsPayload"
    /\ Ends(Returned(buildJiraUpdateFieldsPayload(args.summary, args.description,
                                                  args.assigneeAccountId)))

\* updateJiraIssueFields (268-280): the PUT is issued and awaited; its failure rejects
CallUpdateJiraIssueFields ==
    /\ args.fn = "updateJiraIssueFields"
    /\ pc = "called"
    /\ \E r \in {OkResponse(Undef)} \cup {ErrResponse(e) : e \in RemoteErrors} :
        /\ calls' = <<[endpoint |-> "issue", method |-> "PUT",
                       body |-> [fields |-> args.fieldsPayload],
                       headers |-> RequestHeaders(args.authHeader, "PUT")]>>
        /\ responses' = <<Outcome(r)>>
        /\ result' = <<IF r.ok THEN Returned(Undef) ELSE Thrown(r.error)>>
    /\ pc' = "ended"
    /\ UNCHANGED <<args, env, assigneeAccountId, fieldsToUpdate, transitions, targetTransition,
                   updatedFieldsMessages, classified>>

\* isValidADFNodeArray (adfValidationUtils 17-52)
CallIsValidADFNodeArray ==
    /\ args.fn = "isValidADFNodeArray"
    /\ Ends(Returned(isValidADFNodeArray(args.nodes)))

\* the test 'is-string-or-adf' of JiraUpdateIssueRequestSchema.description (69-86)
CallDescriptionTest ==
    /\ args.fn = "is-string-or-adf"
    /\ Ends(Returned(IsStringOrADF(args.value)))

NextHelpers ==
    \/ CallMapError
    \/ CallGetJiraCredentials
    \/ CallToADF
    \/ CallSearchJiraUser
    \/ CallBuildPayload
    \/ CallUpdateJiraIssueFields
    \/ CallIsValidADFNodeArray
    \/ CallDescriptionTest

SpecHelpers == InitHelpers /\ [][NextHelpers]_vars

HelperEnded(fn) == pc = "ended" /\ args.fn = fn
ReturnValue == result[1].value
ReturnedText == ReturnValue.content[1].text

HttpClientError(error) == error.class = "AxiosError"
HasResponse(error) == HttpClientError(error) /\ error.response # NoResponse

\* C11: mapErrorToResponseFormat gives each category of error the code of the table:
\* validation error VALIDATION_ERROR, CredentialsError CREDENTIALS_MISSING, an HTTP error
\* response 400/401/403/404 JIRA_BAD_REQUEST/JIRA_UNAUTHORIZED/JIRA_FORBIDDEN/
\* JIRA_ISSUE_NOT_FOUND and any other status JIRA_API_ERROR, a request without response
\* NETWORK_ERROR, a failure before the request left AXIOS_ERROR; and the result is always
\* one text item with isError true and a title, code, message and suggestion.
C11_ClassifierTable ==
    HelperEnded("mapErrorToResponseFormat") =>
        LET e == args.error IN
        /\ result[1].outcome = "returned"
        /\ ReturnValue.isError = TRUE
        /\ Len(ReturnValue.content) = 1
        /\ ReturnValue.content[1].type = "text"
        /\ ReturnedText.title # "" /\ ReturnedText.code # ""
        /\ ReturnedText.message # "" /\ ReturnedText.suggestion # ""
        /\ e.class = "ValidationError" => ReturnedText.code = "VALIDATION_ERROR"
        /\ e.class = "CredentialsError" => ReturnedText.code = "CREDENTIALS_MISSING"
        /\ (HasResponse(e) /\ e.response = 400) => ReturnedText.code = "JIRA_BAD_REQUEST"
        /\ (HasResponse(e) /\ e.response = 401) => ReturnedText.code = "JIRA_UNAUTHORIZED"
        /\ (HasResponse(e) /\ e.response = 403) => ReturnedText.code = "JIRA_FORBIDDEN"
        /\ (HasResponse(e) /\ e.response = 404) => ReturnedText.code = "JIRA_ISSUE_NOT_FOUND"
        /\ (HasResponse(e) /\ e.response \notin {400, 401, 403, 404}) =>
                ReturnedText.code = "JIRA_API_ERROR"
        /\ (HttpClientError(e) /\ ~HasResponse(e) /\ e.request) =>
                ReturnedText.code = "NETWORK_ERROR"
        /\ (HttpClientError(e) /\ ~HasResponse(e) /\ ~e.request) =>
                ReturnedText.code = "AXIOS_ERROR"

C11_Witness ==
    /\ HelperEnded("mapErrorToResponseFormat")
    /\ HasResponse(args.error) /\ args.error.response = 403
    /\ ReturnedText.code = "JIRA_FORBIDDEN"
    /\ ReturnedText.suggestion # DefaultSolution

Unclassified(error) == error.class \notin {"ValidationError", "CredentialsError", "AxiosError"}

\* C12 as stated: every error that is no validation error, CredentialsError or HTTP-client
\* error gets the code UNKNOWN_ERROR or UNKNOWN_ERROR_TYPE.
C12_AsStated ==
    (HelperEnded("mapErrorToResponseFormat") /\ Unclassified(args.error)) =>
        ReturnedText.code \in {"UNKNOWN_ERROR", "UNKNOWN_ERROR_TYPE"}

\* C12: of the errors that are no validation error, CredentialsError or HTTP-client error,
\* an Error instance gets the code APPLICATION_ERROR and any other thrown value the code
\* UNKNOWN_ERROR_TYPE; the code UNKNOWN_ERROR is never produced.
C12_ErrorInstancesAreApplicationErrors ==
    HelperEnded("mapErrorToResponseFormat") =>
        /\ ReturnedText.code # "UNKNOWN_ERROR"
        /\ Unclassified(args.error) =>
                ReturnedText.code =
                    IF args.error.class = "Error" THEN "APPLICATION_ERROR" ELSE "UNKNOWN_ERROR_TYPE"

C12_Witness ==
    /\ HelperEnded("mapErrorToResponseFormat")
    /\ args.error.class = "Error"
    /\ ReturnedText.code = "APPLICATION_ERROR"
    /\ ReturnedText.title = "Unexpected Application Error"

HasHeader(call, name, value) == Header(name, value) \in call.headers
HeaderNames(call) == {h.name : h \in call.headers}

\* C13 as stated: every request issued by updateIssue has an Authorization header whose
\* value is the Basic string createAuthHeader derives from the resolved email and token,
\* and Accept: application/json; the PUT and the POST also Content-Type: application/json.
C13_AsStated ==
    \A i \in DOMAIN calls :
        /\ HasHeader(calls[i], "Authorization",
                     createAuthHeader(ResolvedEmail(args, env).s, ResolvedToken(args, env).s))
        /\ HasHeader(calls[i], "Accept", ApplicationJson)
        /\ calls[i].method \in {"PUT", "POST"} =>
                HasHeader(calls[i], "Content-Type", ApplicationJson)

\* what the requests carry instead: Accept (and Content-Type on PUT and POST), no
\* Authorization header at all, and one header per character of the Basic string
C13_RequestsCarryNoAuthorization ==
    \A i \in DOMAIN calls :
        /\ "Authorization" \notin HeaderNames(calls[i])
        /\ HasHeader(calls[i], "0", <<"B">>)
        /\ HasHeader(calls[i], "Accept", ApplicationJson)
        /\ calls[i].method \in {"PUT", "POST"} <=>
                HasHeader(calls[i], "Content-Type", ApplicationJson)

C13_Witness ==
    /\ Len(calls) = 3
    /\ calls[1].method = "GET" /\ calls[2].method = "PUT" /\ calls[3].method = "GET"
    /\ \A i \in DOMAIN calls : "Authorization" \notin HeaderNames(calls[i])

(***************************************************************************)
(* The other tools: searchIssues (tools/searchIssues.ts 59-124),           *)
(* listProjects, listProjectMembers and createIssue.  Each validates its   *)
(* argument bag, resolves the credentials and awaits its remote calls in   *)
(* turn; what differs is which of these sit inside a try/catch.  Of the    *)
(* schemas the credential fields and projectKey are modelled; the other    *)
(* fields of createIssue are taken to be valid, and response bodies to be  *)
(* well-formed.                                                            *)
(***************************************************************************)
OtherTools == {"searchIssues", "listProjects", "listProjectMembers", "createIssue"}

ProjectKeyGood == <<"T", "S">>
ProjectKeyBad == <<"t">>
SprintOne == <<"1">>

\* value.trim().length > 0
IsBlank(str) == \A i \in DOMAIN str : str[i] = " "

\* yup .default(process.env.X || ""): an absent field takes the default
WithDefault(v, envValue) == IF v = Undef THEN Or(envValue, Str(<<>>)) ELSE v

\* the argument bag after the defaults of JiraApiRequestSchema
ApiDefaults(a, e) ==
    [a EXCEPT !.jiraHost = WithDefault(a.jiraHost, e.JIRA_HOST),
              !.email = WithDefault(a.email, e.JIRA_EMAIL),
              !.apiToken = WithDefault(a.apiToken, e.JIRA_API_TOKEN)]

\* (value) => !!value && value.trim().length > 0
IsGiven(v) == v.k = "string" /\ Truthy(v) /\ ~IsBlank(v.s)

\* /^[A-Z][A-Z0-9_]+$/
MatchesProjectKey(str) ==
    /\ Len(str) >= 2
    /\ IsUpper(str[1])
    /\ \A i \in 2..Len(str) : IsKeyChar(str[i])

\* JiraApiRequestSchema and the projectKey of the schemas that extend it
ToolSchemaErrors(a, e) ==
    LET v == ApiDefaults(a, e) IN
    SelectSeq(<<"jiraHost", "email", "apiToken", "projectKey">>,
              LAMBDA f :
                  CASE f = "jiraHost" -> ~IsGiven(v.jiraHost)
                    [] f = "email" -> ~(IsGiven(v.email) /\ IsEmail(v.email.s))
                    [] f = "apiToken" -> ~IsGiven(v.apiToken)
                    [] f = "projectKey" ->
                          /\ a.tool # "listProjects"
                          /\ ~(a.projectKey.k = "string" /\ MatchesProjectKey(a.projectKey.s)))

\* one awaited remote call of a tool: wanted says whether the call is made at all, onFail
\* what its failure does: "reject" (no try around it), "return" (the catch of the tool
\* returns an error result) or "continue" (an inner catch logs a warning)
Step(endpoint, method, wanted, onFail) ==
    [endpoint |-> endpoint, method |-> method, wanted |-> wanted, onFail |-> onFail]

\* a bug: every remote call of every tool sits inside the try of the tool
ToolPlanAllCaught(a) ==
    CASE a.tool = "searchIssues" -> <<Step("search", "GET", TRUE, "return")>>
      [] a.tool = "listProjects" -> <<Step("project", "GET", TRUE, "return")>>
      [] a.tool = "listProjectMembers" ->
            <<Step("roles", "GET", TRUE, "return"),
              Step("roleDetails", "GET", TRUE, "return")>>
      [] a.tool = "createIssue" ->
            <<Step("userSearch", "GET", Truthy(a.assigneeName), "continue"),
              Step("userSearch", "GET", Truthy(a.reporterName), "continue"),
              Step("issue", "POST", TRUE, "return"),
              Step("sprint", "POST", Truthy(a.sprintId), "continue"),
              Step("issue", "GET", TRUE, "return")>>

ToolPlan(a) ==
    CASE a.tool = "searchIssues" -> <<Step("search", "GET", TRUE, "reject")>>
      [] a.tool = "listProjects" -> <<Step("project", "GET", TRUE, "return")>>
      [] a.tool = "listProjectMembers" ->
            <<Step("roles", "GET", TRUE, "reject"),
              Step("roleDetails", "GET", TRUE, "reject")>>
      [] a.tool = "createIssue" ->
            <<Step("userSearch", "GET", Truthy(a.assigneeName), "continue"),
              Step("userSearch", "GET", Truthy(a.reporterName), "continue"),
              Step("issue", "POST", TRUE, "return"),
              Step("sprint", "POST", Truthy(a.sprintId), "continue"),
              Step("issue", "GET", TRUE, "return")>>

MaxSteps == 5
StepPc == <<"step1", "step2", "step3", "step4", "step5", "step6">>
AwaitPc == <<"await1", "await2", "await3", "await4", "await5">>

\* headers: { 'Authorization': authHeader, 'Accept': ... } (searchIssues.ts 87-90)
ToolHeaders(authHeader, method) ==
    {Header("Authorization", authHeader), Header("Accept", ApplicationJson)}
        \cup (IF method = "POST" THEN {Header("Content-Type", ApplicationJson)} ELSE {})

ToolArgsSet ==
    [tool : OtherTools,
     jiraHost : {Undef, Str(Blank), Str(HostName)},
     email : {Undef, Str(EmailBad)},
     apiToken : {Undef, Str(TokenValue)},
     projectKey : {Undef, Str(ProjectKeyBad), Str(ProjectKeyGood)},
     assigneeName : {Undef, Str(AssigneeAl)},
     reporterName : {Undef, Str(AssigneeAl)},
     sprintId : {Undef, Str(SprintOne)}]

InitOtherTools ==
    /\ args \in ToolArgsSet
    /\ env \in EnvSet
    /\ pc = "toolValidate"
    /\ assigneeAccountId = Undef
    /\ fieldsToUpdate = EmptyPayload
    /\ transitions = <<>>
    /\ targetTransition = <<>>
    /\ updatedFieldsMessages = <<>>
    /\ calls = <<>>
    /\ responses = <<>>
    /\ classified = <<>>
    /\ result = <<>>

\* the promise of the tool rejects with the error
Reject(error) ==
    /\ result' = <<Thrown(error)>>
    /\ pc' = "rejected"

\* const validatedArgs = await Schema.validate(args), outside any try
ToolValidate ==
    /\ pc = "toolValidate"
    /\ IF ToolSchemaErrors(args, env) = <<>>
       THEN /\ pc' = "toolCredentials"
            /\ args' = ApiDefaults(args, env)
            /\ UNCHANGED result
       ELSE /\ Reject(ValidationError(ToolSchemaErrors(args, env)))
            /\ UNCHANGED args
    /\ UNCHANGED <<env, assigneeAccountId, fieldsToUpdate, transitions, targetTransition,
                   updatedFieldsMessages, calls, responses, classified>>

\* the credential test and validateCredentials, outside any try
ToolCredentials ==
    /\ pc = "toolCredentials"
    /\ IF ~Truthy(ResolvedHost(args, env)) \/ ~Truthy(ResolvedEmail(args, env))
            \/ ~Truthy(ResolvedToken(args, env))
       THEN Reject(PlainError("Missing required authentication credentials. Please provide jiraHost, email, and apiToken."))
       ELSE IF CredentialsMissing(args, env) # <<>>
       THEN Reject(CredentialsError(CredentialsMissing(args, env)))
       ELSE /\ pc' = StepPc[1]
            /\ UNCHANGED result
    /\ UNCHANGED <<args, env, assigneeAccountId, fieldsToUpdate, transitions, targetTransition,
                   updatedFieldsMessages, calls, responses, classified>>

\* the next remote call is issued or skipped; after the last one the report is returned
ToolIssue ==
    /\ \E k \in 1..(MaxSteps + 1) :
        /\ pc = StepPc[k]
        /\ IF k > Len(ToolPlan(args))
           THEN /\ Return(ToolResult([fmt |-> "report", tool |-> args.tool], FALSE))
                /\ UNCHANGED calls
           ELSE LET step == ToolPlan(args)[k] IN
                IF step.wanted
                THEN /\ Issue_([endpoint |-> step.endpoint, method |-> step.method, body |-> Undef,
                                headers |-> ToolHeaders(authHeaderOf(args, env), step.method)],
                               AwaitPc[k])
                     /\ UNCHANGED result
                ELSE /\ pc' = StepPc[k + 1]
                     /\ UNCHANGED <<calls, result>>
    /\ UNCHANGED <<args, env, assigneeAccountId, fieldsToUpdate, transitions, targetTransition,
                   updatedFieldsMessages, responses, classified>>

\* the awaited call ends
ToolResponse ==
    /\ \E k \in 1..MaxSteps :
        /\ pc = AwaitPc[k]
        /\ \E r \in {[ok |-> TRUE]} \cup {ErrResponse(e) : e \in RemoteErrors} :
            /\ responses' = Append(responses, r)
            /\ IF r.ok \/ ToolPlan(args)[k].onFail = "continue"
               THEN /\ pc' = StepPc[k + 1]
                    /\ UNCHANGED result
               ELSE IF ToolPlan(args)[k].onFail = "return"
               THEN Return(ToolResult([fmt |-> "plainError", tool |-> args.tool], TRUE))
               ELSE Reject(r.error)
    /\ UNCHANGED <<args, env, assigneeAccountId, fieldsToUpdate, transitions, targetTransition,
                   updatedFieldsMessages, calls, classified>>

InitTools == Init \/ InitOtherTools

NextTools ==
    \/ Validate
    \/ GetCredentials
    \/ HandleAssignee
    \/ UserSearchReturns
    \/ BuildPayload
    \/ UpdateFields
    \/ PutReturns
    \/ HandleStatus
    \/ TransitionsReturn
    \/ PostReturns
    \/ CheckAction
    \/ IssueReturns
    \/ ToolValidate
    \/ ToolCredentials
    \/ ToolIssue
    \/ ToolResponse

\* one invocation of any of the five tools
SpecTools == InitTools /\ [][NextTools]_vars

Ended == pc \in {"done", "rejected"}
Rejected == pc = "rejected"
IsUpdateIssue == "tool" \notin DOMAIN args
ToolIs(names) == ~IsUpdateIssue /\ args.tool \in names

\* {content: [one text item], isError: boolean}
IsToolResult(r) ==
    /\ DOMAIN r = {"content", "isError"}
    /\ r.isError \in BOOLEAN
    /\ Len(r.content) = 1
    /\ r.content[1].type = "text"

SomeCallFailed == \E i \in DOMAIN responses : ~responses[i].ok
\* a failed call whose failure is not swallowed by an inner catch
FatalCallFailed ==
    /\ responses # <<>>
    /\ ~responses[Len(responses)].ok
    /\ \E k \in DOMAIN ToolPlan(args) :
        /\ ToolPlan(args)[k].endpoint = calls[Len(responses)].endpoint
        /\ ToolPlan(args)[k].method = calls[Len(responses)].method
        /\ ToolPlan(args)[k].onFail # "continue"

\* C14 as stated: an invocation of any of the five tools, whatever step fails, ends by
\* returning {content: [one text item], isError: boolean} and never by a rejected promise.
C14_AsStated == Ended => IsToolResult(result[1])

\* C14: an invocation of updateIssue always ends by returning {content: [one text item],
\* isError}; listProjects and createIssue reject when validation or the credentials fail
\* and return that shape, with isError true, when a remote call of theirs fails;
\* searchIssues and listProjectMembers reject on every failure: validation, credentials
\* or remote call.
C14_OnlyUpdateIssueAlwaysReturns ==
    Ended =>
        /\ IsUpdateIssue => IsToolResult(result[1])
        /\ ~IsUpdateIssue => (Rejected <=> ~IsToolResult(result[1]))
        /\ ToolIs({"listProjects", "createIssue"}) =>
            /\ Rejected <=> ToolSchemaErrors(args, env) # <<>>
            /\ FatalCallFailed => (IsToolResult(result[1]) /\ result[1].isError)
        /\ ToolIs({"searchIssues", "listProjectMembers"}) =>
            (Rejected <=> (ToolSchemaErrors(args, env) # <<>> \/ SomeCallFailed))

C14_Witness ==
    /\ Rejected
    /\ ToolIs({"searchIssues"})
    /\ Len(calls) = 1 /\ SomeCallFailed
    /\ result[1] = Thrown(AxiosError(NoResponse, TRUE, "Network Error"))

\* a credential value that is either not there or an ordinary string
Absent(v) == v = Undef
Ordinary(v) == v.k = "string" /\ v.s # <<>> /\ ~IsBlank(v.s)

AbsentCredentials ==
    {n \in {"Jira host", "email", "API token"} :
        \/ n = "Jira host" /\ Absent(args.jiraHost) /\ Absent(env.JIRA_HOST)
        \/ n = "email" /\ Absent(args.email) /\ Absent(env.JIRA_EMAIL)
        \/ n = "API token" /\ Absent(args.apiToken) /\ Absent(env.JIRA_API_TOKEN)}

AbsentOrOrdinary ==
    \A v \in {args.jiraHost, args.email, args.apiToken,
               env.JIRA_HOST, env.JIRA_EMAIL, env.JIRA_API_TOKEN} : Absent(v) \/ Ordinary(v)

\* the names a message must list for each set of absent credentials
NamesFor(absent) ==
    CASE absent = {"Jira host"} -> "Jira host"
      [] absent = {"email"} -> "email"
      [] absent = {"API token"} -> "API token"
      [] absent = {"Jira host", "email"} -> "Jira host, email"
      [] absent = {"Jira host", "API token"} -> "Jira host, API token"
      [] absent = {"email", "API token"} -> "email, API token"
      [] absent = {"Jira host", "email", "API token"} -> "Jira host, email, API token"

\* C15: for each combination of credentials absent from both the arguments and the
\* environment, getJiraCredentials throws iff at least one is absent, and then it throws
\* a CredentialsError whose message lists every absent credential and no present one.
C15_MessageNamesMissing ==
    (HelperEnded("getJiraCredentials") /\ AbsentOrOrdinary) =>
        /\ result[1].outcome = "thrown" <=> AbsentCredentials # {}
        /\ result[1].outcome = "thrown" =>
            /\ result[1].error.class = "CredentialsError"
            /\ result[1].error.message =
                   "Missing required Jira credentials: " \o NamesFor(AbsentCredentials)
                       \o ". Please provide them in the request or set them as environment variables (JIRA_HOST, JIRA_EMAIL, JIRA_API_TOKEN)."

C15_Witness ==
    /\ HelperEnded("getJiraCredentials") /\ AbsentOrOrdinary
    /\ AbsentCredentials = {"Jira host", "API token"}
    /\ result[1].outcome = "thrown"
    /\ result[1].error.missing = <<"Jira host", "API token">>

(***************************************************************************)
(* updateIssue invoked with credentials that are empty or whitespace-only. *)
(***************************************************************************)
BlankArgsSet ==
    [jiraHost : {Undef, Str(<<>>), Str(Blank)},
     email : {Undef},
     apiToken : {Undef, Str(Blank)},
     issueIdOrKey : {Str(KeyGood)},
     summary : {Str(SummaryText)},
     description : {Undef},
     status : {Undef, Str(StatusDone)},
     assigneeName : {Undef, Str(AssigneeAl)}]

BlankEnvSet ==
    [JIRA_HOST : {Undef, Str(HostName)},
     JIRA_EMAIL : {Str(EmailGood)},
     JIRA_API_TOKEN : {Undef, Str(TokenValue)}]

InitBlankCredentials ==
    /\ args \in BlankArgsSet
    /\ env \in BlankEnvSet
    /\ pc = "validate"
    /\ assigneeAccountId = Undef
    /\ fieldsToUpdate = EmptyPayload
    /\ transitions = <<>>
    /\ targetTransition = <<>>
    /\ updatedFieldsMessages = <<>>
    /\ calls = <<>>
    /\ responses = <<>>
    /\ classified = <<>>
    /\ result = <<>>

SpecBlankCredentials == InitBlankCredentials /\ [][Next]_vars

ResolvedCredentials ==
    {ResolvedHost(args, env), ResolvedEmail(args, env), ResolvedToken(args, env)}

PastCredentials == pc \notin {"validate", "credentials"} /\ SchemaErrors(args) = <<>>

\* C16 as stated: credential resolution in updateIssue succeeds only if the resolved host,
\* email and token are all non-empty and not whitespace-only; if one of them is empty or
\* whitespace-only the invocation fails with a CredentialsError and makes no remote call.
C16_AsStated ==
    PastCredentials =>
        IF \A v \in ResolvedCredentials : Ordinary(v)
        THEN "credentials" \notin ClassifiedSteps
        ELSE /\ calls = <<>>
             /\ Done /\ Failed /\ ResultCode = "CREDENTIALS_MISSING"

\* what holds instead: the failure is tied to empty or absent values only; a
\* whitespace-only host or token resolves and the remote calls go out
C16_OnlyEmptyIsMissing ==
    PastCredentials =>
        IF \A v \in ResolvedCredentials : Truthy(v)
        THEN "credentials" \notin ClassifiedSteps
        ELSE /\ calls = <<>>
             /\ Done /\ Failed /\ ResultCode = "CREDENTIALS_MISSING"

C16_Witness ==
    /\ ResolvedHost(args, env) = Str(Blank)
    /\ ResolvedToken(args, env) = Str(Blank)
    /\ PutCalls # {}
    /\ Done /\ ~Failed

OnlyAssigneeGiven ==
    /\ args.summary = Undef
    /\ args.description = Undef
    /\ args.status = Undef
    /\ Truthy(args.assigneeName)

\* the user search was answered and gave no usable user (an empty list leaves the
\* invocation in the same state as a list without an active user)
NoUserFound == \E i \in UserSearchCalls : Succeeded(i) /\ assigneeAccountId = Undef

\* C17 as stated: with assigneeName as the only update parameter and a user search that
\* returns no users, the result of updateIssue has isError true and is a warning report
\* (heading "Warning") saying that the user was not found.
C17_AsStated ==
    (Done /\ InputAccepted /\ OnlyAssigneeGiven /\ NoUserFound) =>
        /\ result[1].isError
        /\ result[1].content[1].text.fmt = "warning"

\* what the invocation does instead: the warning is a line of the report, the final GET
\* is issued, and when that answers the success report is returned with isError false
C17_NotFoundIsALineOfTheSuccessReport ==
    (Done /\ InputAccepted /\ OnlyAssigneeGiven /\ NoUserFound) =>
        /\ Lines("WarningAssigneeNotFound") # {}
        /\ IssueGetCalls # {}
        /\ (\A i \in IssueGetCalls : Succeeded(i)) =>
            /\ ~result[1].isError
            /\ result[1].content[1].text.fmt = "success"

C17_Witness ==
    /\ Done /\ InputAccepted /\ OnlyAssigneeGiven /\ NoUserFound
    /\ PutCalls = {}
    /\ ~result[1].isError
    /\ result[1].content[1].text.fmt = "success"

StringGiven == HelperEnded("toADF") /\ args.description.k = "string"

\* a document whose content is one paragraph whose content is one text leaf reading str
IsOneParagraphOneLeaf(doc, str) ==
    /\ doc.k = "object"
    /\ doc.type = Str(DocType) /\ doc.version = Num(1)
    /\ doc.content.k = "array" /\ Len(doc.content.items) = 1
    /\ LET paragraph == doc.content.items[1] IN
        /\ paragraph.type = Str(ParagraphType)
        /\ paragraph.content.k = "array" /\ Len(paragraph.content.items) = 1
        /\ LET leaf == paragraph.content.items[1] IN
            /\ leaf.type = Str(TextType)
            /\ leaf.text = Str(str)

\* the canonical empty document: one paragraph without children
IsCanonicalEmpty(doc) ==
    /\ doc.k = "object"
    /\ doc.type = Str(DocType) /\ doc.version = Num(1)
    /\ doc.content.k = "array" /\ Len(doc.content.items) = 1
    /\ doc.content.items[1].type = Str(ParagraphType)
    /\ doc.content.items[1].content = Arr(<<>>)

\* C18 as stated: for every string s, the empty one included, toADF(s) is a document of
\* one paragraph holding one text leaf whose text is s.
C18_AsStated == StringGiven => IsOneParagraphOneLeaf(ReturnValue, args.description.s)

\* C18: for every non-empty string s, toADF(s) is a document {type doc, version 1} of one
\* paragraph holding one text leaf whose text is s verbatim (whitespace included); for
\* the empty string it is the canonical empty document, a paragraph without children.
C18_NonEmptyStringsBecomeOneLeaf ==
    StringGiven =>
        IF args.description.s # <<>>
        THEN IsOneParagraphOneLeaf(ReturnValue, args.description.s)
        ELSE IsCanonicalEmpty(ReturnValue)

C18_Witness ==
    /\ StringGiven
    /\ args.description.s = <<>>
    /\ IsCanonicalEmpty(ReturnValue)
    /\ ~IsOneParagraphOneLeaf(ReturnValue, <<>>)

\* typeof description === 'object': objects, arrays and null
ObjectGiven == HelperEnded("toADF") /\ args.description.k \in {"object", "array", "null"}

\* type doc, version 1 and a content array, the nodes not looked at
IsDocumentShell(d) ==
    /\ d.k = "object"
    /\ d.type = Str(DocType) /\ d.version = Num(1)
    /\ d.content.k = "array"

IsValidDocument(d) == IsDocumentShell(d) /\ isValidADFNodeArray(d.content)

\* C19 as stated: an object is returned unchanged only if it is a document of type doc,
\* version 1 whose content nodes are valid recursively; every other object gives the
\* canonical empty document; toADF never raises.
C19_AsStated ==
    ObjectGiven =>
        /\ result[1].outcome = "returned"
        /\ ~IsValidDocument(args.description) => ReturnValue = EmptyDoc

\* C19: an object is returned unchanged iff it has type doc, version 1 and a content
\* array, whatever the nodes in that array are; every other object gives the canonical
\* empty document; toADF never raises.
C19_DocumentShellReturnedUnchanged ==
    ObjectGiven =>
        /\ result[1].outcome = "returned"
        /\ IF IsDocumentShell(args.description)
           THEN ReturnValue = args.description
           ELSE ReturnValue = EmptyDoc /\ IsCanonicalEmpty(ReturnValue)

C19_Witness ==
    /\ ObjectGiven
    /\ IsDocumentShell(args.description) /\ ~IsValidDocument(args.description)
    /\ ReturnValue = args.description
    /\ ReturnValue # EmptyDoc

SearchAnswered == HelperEnded("searchJiraUser") /\ args.response.ok

UsersReturned == IF Truthy(args.response.data) THEN args.response.data.items ELSE <<>>

ActiveUsers == {i \in DOMAIN UsersReturned : UsersReturned[i].active}

ExactMatches ==
    {i \in ActiveUsers :
        /\ UsersReturned[i].displayName.k = "string"
        /\ toLowerCase(UsersReturned[i].displayName.s) = toLowerCase(args.userName)}

First(S) == CHOOSE i \in S : \A j \in S : i <= j

\* C20: searchJiraUser returns the first active user whose displayName equals the query
\* ignoring case; if there is none, the first active user in the order of the response;
\* if the list is empty or has no active user, undefined, without throwing.
C20_UserResolverOrder ==
    SearchAnswered =>
        /\ result[1].outcome = "returned"
        /\ ReturnValue =
              IF ExactMatches # {} THEN <<UsersReturned[First(ExactMatches)]>>
              ELSE IF ActiveUsers # {} THEN <<UsersReturned[First(ActiveUsers)]>>
              ELSE <<>>

C20_Witness ==
    /\ SearchAnswered
    /\ ExactMatches # {}
    /\ First(ActiveUsers) < First(ExactMatches)
    /\ ReturnValue = <<UsersReturned[First(ExactMatches)]>>

TransitionsFetched == \E i \in TransitionsGetCalls : Succeeded(i)

\* the positions of the fetched transitions whose to.name is the requested status, case
\* ignored
MatchingTransitions ==
    LET wanted == toLowerCase(args.status.s) IN
    {j \in DOMAIN transitions : toLowerCase(transitions[j].to.name) = wanted}

\* C21: findTargetTransition gives the first fetched transition whose to.name equals the
\* requested status ignoring case, or nothing if there is none; when there is one,
\* updateIssue issues exactly one transition POST, carrying the id of that transition,
\* and when there is none it issues no POST.
C21_FirstMatchingTransitionPosted ==
    TransitionsFetched =>
        LET matching == MatchingTransitions IN
        IF matching = {}
        THEN targetTransition = <<>> /\ TransitionPostCalls = {}
        ELSE LET first == transitions[First(matching)] IN
             /\ targetTransition = <<first>>
             /\ Cardinality(TransitionPostCalls) = 1
             /\ \A i \in TransitionPostCalls :
                    calls[i].body = [transition |-> [id |-> first.id]]

C21_Witness ==
    /\ TransitionsFetched
    /\ Cardinality(MatchingTransitions) = 2
    /\ transitions[1].id # transitions[2].id
    /\ transitions[1].to.name # args.status.s
    /\ \E i \in TransitionPostCalls : Succeeded(i) /\ calls[i].body.transition.id = transitions[1].id
    /\ Done

BuilderEnded == HelperEnded("buildJiraUpdateFieldsPayload")

\* the keys a payload has
KeysOf(payload) == {key \in DOMAIN payload : payload[key] # Undef}

\* C22: the payload of buildJiraUpdateFieldsPayload has the key summary iff a summary was
\* given, an empty one kept as it is; the key description iff a description was given,
\* its value being toADF of it; the key assignee iff an account id was resolved; and no
\* other key.  The body of the PUT is {fields: payload}.
C22_PayloadKeys ==
    /\ BuilderEnded =>
        /\ KeysOf(ReturnValue) \subseteq {"summary", "description", "assignee"}
        /\ "summary" \in KeysOf(ReturnValue) <=> args.summary # Undef
        /\ args.summary # Undef => ReturnValue.summary = args.summary
        /\ "description" \in KeysOf(ReturnValue) <=> args.description # Undef
        /\ args.description # Undef => ReturnValue.description = toADF(args.description)
        /\ "assignee" \in KeysOf(ReturnValue) <=> Truthy(args.assigneeAccountId)
        /\ Truthy(args.assigneeAccountId) =>
                ReturnValue.assignee = [k |-> "object", accountId |-> args.assigneeAccountId]
    /\ HelperEnded("updateJiraIssueFields") =>
        /\ Len(calls) = 1
        /\ calls[1].method = "PUT"
        /\ DOMAIN calls[1].body = {"fields"}
        /\ calls[1].body.fields = args.fieldsPayload

C22_Witness ==
    /\ BuilderEnded
    /\ args.summary = Str(<<>>)
    /\ args.assigneeAccountId = Undef
    /\ KeysOf(ReturnValue) = {"summary"}
    /\ ReturnValue.summary = Str(<<>>)

\* every value that sits in the array or, through content arrays, below it
RECURSIVE NodesWithin(_)
NodesWithin(arr) ==
    IF arr.k # "array" THEN {}
    ELSE UNION {{arr.items[i]} \cup
                    (IF arr.items[i].k = "object" /\ arr.items[i].content.k = "array"
                     THEN NodesWithin(arr.items[i].content)
                     ELSE {}) : i \in DOMAIN arr.items}

\* a non-null object with a non-empty string type whose content is absent or an array
WellFormedNode(n) ==
    /\ n.k = "object"
    /\ n.type.k = "string" /\ n.type.s # <<>>
    /\ n.content.k \in {"undefined", "array"}

AllNodesWellFormed(arr) == arr.k = "array" /\ \A n \in NodesWithin(arr) : WellFormedNode(n)

\* C23: isValidADFNodeArray accepts an array iff every node in it, at every depth, is a
\* non-null object with a non-empty string type and a content that is absent or an
\* array; empty arrays are accepted.  The description test of the schema accepts an
\* object of type doc and version 1 iff its content is such an array.
C23_ValidIffEveryNodeWellFormed ==
    /\ HelperEnded("isValidADFNodeArray") => ReturnValue = AllNodesWellFormed(args.nodes)
    /\ (/\ HelperEnded("is-string-or-adf")
        /\ args.value.k = "object"
        /\ args.value.type = Str(DocType)
        /\ args.value.version = Num(1)) => ReturnValue = AllNodesWellFormed(args.value.content)

C23_Witness ==
    /\ HelperEnded("is-string-or-adf")
    /\ args.value.k = "object"
    /\ args.value.content.k = "array"
    /\ Len(args.value.content.items) = 2
    /\ \A i \in 1..2 : WellFormedNode(args.value.content.items[i])
    /\ ~AllNodesWellFormed(args.value.content)
    /\ ReturnValue = FALSE

\* the place of a call in the fixed order of the five remote calls
Rank(call) ==
    CASE call.endpoint = "userSearch" -> 1
      [] call.endpoint = "issue" /\ call.method = "PUT" -> 2
      [] call.endpoint = "transitions" /\ call.method = "GET" -> 3
      [] call.endpoint = "transitions" /\ call.method = "POST" -> 4
      [] call.endpoint = "issue" /\ call.method = "GET" -> 5

InFlight == Len(calls) - Len(responses)

\* C24: within one invocation of updateIssue the remote calls are issued in the order
\* user search GET, fields PUT, transitions GET, transition POST, final issue GET, each
\* at most once; a call is issued only when every earlier call has completed, so at
\* most one call is in flight.
C24_CallsSequentialInFixedOrder ==
    /\ InFlight \in {0, 1}
    /\ \A i, j \in DOMAIN calls : i < j => Rank(calls[i]) < Rank(calls[j])

C24_Witness ==
    /\ Done
    /\ Len(calls) = 5 /\ Len(responses) = 5
    /\ [i \in 1..5 |-> Rank(calls[i])] = <<1, 2, 3, 4, 5>>

PutFailed == \E i \in PutCalls : FailedCall(i)

\* C25: if the fields PUT fails, updateIssue aborts: no transitions GET, no transition
\* POST and no final issue GET is issued, the PUT stays the last call, and the failure
\* is classified exactly once into the one error report that is returned.
C25_PutFailureAborts ==
    PutFailed =>
        /\ Done /\ Failed
        /\ TransitionsGetCalls = {} /\ TransitionPostCalls = {} /\ IssueGetCalls = {}
        /\ Len(calls) \in PutCalls
        /\ Len(classified) = 1
        /\ classified[1].step = "fields"
        /\ classified[1].error = responses[Len(responses)].error
        /\ result = <<mapErrorToResponseFormat(classified[1].error)>>

C25_Witness ==
    /\ PutFailed
    /\ Truthy(args.status)
    /\ UserSearchCalls # {}
    /\ Done /\ ResultCode = "JIRA_ISSUE_NOT_FOUND"

\* C28: toADF is idempotent: applied to its own result it returns that result, for
\* every description (undefined, null, strings, documents, other objects).
C28_ToADFIdempotent ==
    HelperEnded("toADF") =>
        /\ ReturnValue = toADF(args.description)
        /\ toADF(ReturnValue) = ReturnValue

C28_Witness ==
    /\ HelperEnded("toADF")
    /\ args.description = Str(DescText)
    /\ ReturnValue # args.description
    /\ toADF(ReturnValue) = ReturnValue

PutSucceededWith(key) ==
    \E i \in PutCalls : Succeeded(i) /\ calls[i].body.fields[key] # Undef

\* the change lines of the report that was returned
ReportedLines ==
    IF Done /\ ~Failed /\ result[1].content[1].text.fmt = "success"
    THEN {result[1].content[1].text.changed[j].line :
              j \in DOMAIN result[1].content[1].text.changed}
    ELSE {}

LinesPushed == {updatedFieldsMessages[j].line : j \in DOMAIN updatedFieldsMessages}

\* C29: a line "Summary updated", "Description updated" or "Assignee updated" is there
\* only if the fields PUT of this invocation succeeded with that key in its body, and a
\* line "Status changed to ..." only if the transition POST of this invocation
\* succeeded; the report returned holds no line that was not pushed.
C29_ChangeLinesTruthful ==
    /\ "SummaryUpdated" \in LinesPushed => PutSucceededWith("summary")
    /\ "DescriptionUpdated" \in LinesPushed => PutSucceededWith("description")
    /\ "AssigneeUpdated" \in LinesPushed => PutSucceededWith("assignee")
    /\ "StatusChanged" \in LinesPushed => \E i \in TransitionPostCalls : Succeeded(i)
    /\ ReportedLines \subseteq LinesPushed

C29_Witness ==
    /\ Done /\ ~Failed
    /\ ReportedLines = {"SummaryUpdated", "WarningTransitionError"}
    /\ \E i \in TransitionPostCalls : FailedCall(i)
    /\ PutSucceededWith("summary") /\ ~PutSucceededWith("assignee")

\* C30: an invocation of updateIssue whose summary is the empty string is rejected by the
\* schema: it ends with isError true and the code VALIDATION_ERROR and issues no remote
\* call, although buildJiraUpdateFieldsPayload alone keeps an empty summary.
C30_EmptySummaryRejected ==
    /\ (args.summary = Str(<<>>) /\ pc # "validate") =>
        /\ Done /\ Failed
        /\ ResultCode = "VALIDATION_ERROR"
        /\ calls = <<>>
        /\ \E j \in DOMAIN classified[1].error.errors : classified[1].error.errors[j] = "summary"
    /\ buildJiraUpdateFieldsPayload(Str(<<>>), Undef, Undef).summary = Str(<<>>)

C30_Witness ==
    /\ args.summary = Str(<<>>)
    /\ SchemaErrors(args) = <<"summary">>
    /\ CredentialsMissing(args, env) = <<>>
    /\ Done /\ ResultCode = "VALIDATION_ERROR"

(***************************************************************************)
(* updateIssue under fair scheduling: the event loop runs every step that  *)
(* is ready, and every call that was issued is answered (it returns or it  *)
(* fails), which is what the awaits of 90, 118, 126, 131 and 157 wait for. *)
(***************************************************************************)
LiveArgsSet ==
    [jiraHost : {Str(HostName)},
     email : {Undef},
     apiToken : {Undef},
     issueIdOrKey : {Str(KeyGood), Str(KeyBad)},
     summary : {Undef, Str(SummaryText)},
     description : {Undef},
     status : {Undef, Str(StatusDone)},
     assigneeName : {Undef, Str(AssigneeAl)}]

LiveEnvSet ==
    [JIRA_HOST : {Undef},
     JIRA_EMAIL : {Str(EmailGood)},
     JIRA_API_TOKEN : {Undef, Str(TokenValue)}]

InitLive ==
    /\ args \in LiveArgsSet
    /\ env \in LiveEnvSet
    /\ pc = "validate"
    /\ assigneeAccountId = Undef
    /\ fieldsToUpdate = EmptyPayload
    /\ transitions = <<>>
    /\ targetTransition = <<>>
    /\ updatedFieldsMessages = <<>>
    /\ calls = <<>>
    /\ responses = <<>>
    /\ classified = <<>>
    /\ result = <<>>

\* the steps the program takes by itself
LocalSteps ==
    \/ Validate
    \/ GetCredentials
    \/ HandleAssignee
    \/ BuildPayload
    \/ UpdateFields
    \/ HandleStatus
    \/ CheckAction

\* the answers of the remote side to the call in flight
RemoteAnswers ==
    \/ UserSearchReturns
    \/ PutReturns
    \/ TransitionsReturn
    \/ PostReturns
    \/ IssueReturns

Fairness == WF_vars(LocalSteps) /\ WF_vars(RemoteAnswers)

SpecLive == InitLive /\ [][Next]_vars /\ Fairness

EndedWithReport ==
    /\ Done
    /\ result # <<>>
    /\ result[1].isError \in BOOLEAN
    /\ InFlight = 0

EachEndpointAtMostOnce ==
    \A S \in {UserSearchCalls, PutCalls, TransitionsGetCalls, TransitionPostCalls, IssueGetCalls} :
        Cardinality(S) <= 1

\* C26: when every call that is issued is answered, every invocation of updateIssue
\* ends, with a success report or an error report and no call left in flight, and at no
\* time has any of the five endpoints been requested more than once: nothing is retried.
C26_EveryInvocationEnds == <>EndedWithReport /\ []EachEndpointAtMostOnce

C26_Witness ==
    /\ EndedWithReport /\ ~Failed
    /\ \E i \in UserSearchCalls : FailedCall(i)
    /\ \E i \in TransitionPostCalls : FailedCall(i)
    /\ Cardinality(IssueGetCalls) = 1

(***************************************************************************)
(* listProjectMembers (unnamed/part_003 80-184) in detail: the roles GET,  *)
(* then one role-detail GET per role whose url is a string, all issued     *)
(* before any is awaited, and Promise.all over them.                       *)
(***************************************************************************)
MaxActors == 1

\* one entry of Object.entries(projectRoles)
Role(name, url) == [name |-> name, url |-> url]

RoleAdmins == Role(<<"A", "d">>, Str(<<"r", "/", "1">>))
RoleDevs == Role(<<"D", "e">>, Str(<<"r", "/", "2">>))
RoleUsers == Role(<<"U", "s">>, Str(<<"3">>))
RoleNoUrl == Role(<<"N", "o">>, Num(0))

\* the bodies of the roles response, as the entries of the object in their order
ProjectRolesUniverse ==
    {<<>>, <<RoleNoUrl>>, <<RoleAdmins>>, <<RoleAdmins, RoleNoUrl, RoleDevs>>,
     <<RoleAdmins, RoleDevs, RoleUsers>>}

Actor(displayName, type, emailAddress) ==
    [displayName |-> displayName, type |-> type, emailAddress |-> emailAddress]

UserType == <<"u", "s", "e", "r">>
GroupType == <<"g", "r", "o", "u", "p">>
NotAvailable == <<"N", "/", "A">>

ActorUniverse ==
    {Actor(Str(AssigneeAl), UserType, Str(EmailGood)),
     Actor(Str(AssigneeAl), GroupType, Undef),
     Actor(Str(<<"B", "o">>), UserType, Undef),
     Actor(Undef, GroupType, Undef)}

\* the bodies of a role-detail response
RoleDataUniverse ==
    {[actors |-> Undef]} \cup {[actors |-> Arr(as)] : as \in SeqsUpTo(ActorUniverse, MaxActors)}

MemberErrors ==
    {AxiosError(404, TRUE, "Request failed with status code"),
     AxiosError(NoResponse, TRUE, "Network Error")}

\* roleUrl.split('/').pop() (123)
LastSegment(str) ==
    LET slashes == {i \in DOMAIN str : str[i] = "/"} IN
    IF slashes = {} THEN str
    ELSE SubSeq(str, (CHOOSE i \in slashes : \A j \in slashes : j <= i) + 1, Len(str))

\* a GET of listProjectMembers (96-101, 127-132); roleName is what the .then of 132-135
\* keeps of the loop variable
MembersCall(endpoint, roleName, roleId) ==
    [endpoint |-> endpoint, method |-> "GET", body |-> Undef,
     headers |-> ToolHeaders(authHeaderOf(args, env), "GET"),
     roleName |-> roleName, roleId |-> roleId]

\* the loop of 120-138: one request per entry whose url is a string, in entry order
roleDetailsPromises(projectRoles) ==
    LET wanted == SelectSeq(projectRoles, LAMBDA e : e.url.k = "string") IN
    [k \in DOMAIN wanted |->
        MembersCall("roleDetail", wanted[k].name, LastSegment(wanted[k].url.s))]

\* a response as it arrives: call is the index of the request it answers
Settled(call, response) == [call |-> call, response |-> response]

\* a bug: the results are taken in the order in which the requests completed
PromiseAllInCompletionOrder(cs, rs) ==
    LET done == SelectSeq(rs, LAMBDA x : cs[x.call].endpoint = "roleDetail") IN
    [k \in DOMAIN done |->
        [roleName |-> cs[done[k].call].roleName, data |-> done[k].response.data]]

\* Promise.all (140): the values of the promises, in the order of the promises
PromiseAll(cs, rs) ==
    LET promises == SelectSeq([i \in DOMAIN cs |-> i],
                              LAMBDA i : cs[i].endpoint = "roleDetail") IN
    [k \in DOMAIN promises |->
        LET x == CHOOSE x \in DOMAIN rs : rs[x].call = promises[k] IN
        [roleName |-> cs[promises[k]].roleName, data |-> rs[x].response.data]]

\* the body of the forEach of 145-162; the Map is the sequence of its values in
\* insertion order
AddActor(members, roleName, actor) ==
    IF ~Truthy(actor.displayName) THEN members
    ELSE IF \E m \in DOMAIN members : members[m].displayName = actor.displayName.s
    THEN [m \in DOMAIN members |->
             IF members[m].displayName = actor.displayName.s
             THEN [members[m] EXCEPT !.roles = Append(@, roleName)]
             ELSE members[m]]
    ELSE Append(members, [displayName |-> actor.displayName.s,
                          type |-> actor.type,
                          email |-> Or(actor.emailAddress, Str(NotAvailable)).s,
                          roles |-> <<roleName>>])

RECURSIVE AddActors(_, _, _, _)
AddActors(members, roleName, actors, j) ==
    IF j > Len(actors) THEN members
    ELSE AddActors(AddActor(members, roleName, actors[j]), roleName, actors, j + 1)

\* the loop of 142-164 from the k-th role detail on
RECURSIVE collectMembers(_, _, _)
collectMembers(members, roleDetails, k) ==
    IF k > Len(roleDetails) THEN members
    ELSE collectMembers(
             IF roleDetails[k].data.actors.k = "array"
             THEN AddActors(members, roleDetails[k].roleName,
                            roleDetails[k].data.actors.items, 1)
             ELSE members,
             roleDetails, k + 1)

CommaSpace == <<",", " ">>

\* one line of the table (171): the cells between "| " and " |"
MemberRow(displayName, type, email, roles) ==
    <<displayName, type, email, join(roles, CommaSpace)>>

\* 166-175: the table, or the sentence that there are no members
renderMembers(members) ==
    IF Len(members) > 0
    THEN [fmt |-> "members", projectKey |-> args.projectKey.s,
          rows |-> [m \in DOMAIN members |->
                       MemberRow(members[m].displayName, members[m].type,
                                 members[m].email, members[m].roles)]]
    ELSE [fmt |-> "No project members found.", projectKey |-> args.projectKey.s]

MembersArgsSet ==
    [tool : {"listProjectMembers"},
     jiraHost : {Undef},
     email : {Undef},
     apiToken : {Undef},
     projectKey : {Str(ProjectKeyBad), Str(ProjectKeyGood)},
     assigneeName : {Undef},
     reporterName : {Undef},
     sprintId : {Undef}]

MembersEnvSet ==
    [JIRA_HOST : {Str(HostName)},
     JIRA_EMAIL : {Str(EmailGood)},
     JIRA_API_TOKEN : {Undef, Str(TokenValue)}]

InitMembers ==
    /\ args \in MembersArgsSet
    /\ env \in MembersEnvSet
    /\ pc = "toolValidate"
    /\ assigneeAccountId = Undef
    /\ fieldsToUpdate = EmptyPayload
    /\ transitions = <<>>
    /\ targetTransition = <<>>
    /\ updatedFieldsMessages = <<>>
    /\ calls = <<>>
    /\ responses = <<>>
    /\ classified = <<>>
    /\ result = <<>>

\* 96-101: the roles GET is issued and awaited
MembersRolesRequest ==
    /\ pc = StepPc[1]
    /\ Issue_(MembersCall("roles", Undef, Undef), "awaitRoles")
    /\ UNCHANGED <<args, env, assigneeAccountId, fieldsToUpdate, transitions, targetTransition,
                   updatedFieldsMessages, responses, classified, result>>

\* 96-140: the roles answer; with no role the report is returned, otherwise every
\* role-detail request is issued and Promise.all awaited
MembersRolesResponse ==
    /\ pc = "awaitRoles"
    /\ \E r \in {OkResponse(d) : d \in ProjectRolesUniverse}
                \cup {ErrResponse(e) : e \in MemberErrors} :
        /\ responses' = Append(responses, Settled(Len(calls), r))
        /\ IF ~r.ok
           THEN /\ Reject(r.error)
                /\ UNCHANGED calls
           ELSE IF Len(r.data) = 0
           THEN /\ Return(ToolResult([fmt |-> "No project roles found.",
                                      projectKey |-> args.projectKey.s], FALSE))
                /\ UNCHANGED calls
           ELSE /\ calls' = calls \o roleDetailsPromises(r.data)
                /\ pc' = "awaitAll"
                /\ UNCHANGED result
    /\ UNCHANGED <<args, env, assigneeAccountId, fieldsToUpdate, transitions, targetTransition,
                   updatedFieldsMessages, classified>>

\* the requests that have not been answered
Pending == {i \in DOMAIN calls : \A x \in DOMAIN responses : responses[x].call # i}

\* 127-135: one of the requests in flight is answered, whichever; a failure rejects
\* Promise.all and with it the tool
MembersDetailResponse ==
    /\ pc = "awaitAll"
    /\ \E i \in Pending :
        \E r \in {OkResponse(d) : d \in RoleDataUniverse}
                 \cup {ErrResponse(e) : e \in MemberErrors} :
            /\ responses' = Append(responses, Settled(i, r))
            /\ IF r.ok
               THEN UNCHANGED <<pc, result>>
               ELSE Reject(r.error)
    /\ UNCHANGED <<args, env, assigneeAccountId, fieldsToUpdate, transitions, targetTransition,
                   updatedFieldsMessages, calls, classified>>

\* 140-183: every request was answered; the members are collected and the table returned
MembersAllSettled ==
    /\ pc = "awaitAll"
    /\ Pending = {}
    /\ Return(ToolResult(renderMembers(collectMembers(<<>>, PromiseAll(calls, responses), 1)),
                         FALSE))
    /\ UNCHANGED <<args, env, assigneeAccountId, fieldsToUpdate, transitions, targetTransition,
                   updatedFieldsMessages, calls, responses, classified>>

NextMembers ==
    \/ ToolValidate
    \/ ToolCredentials
    \/ MembersRolesRequest
    \/ MembersRolesResponse
    \/ MembersDetailResponse
    \/ MembersAllSettled

SpecMembers == InitMembers /\ [][NextMembers]_vars

DetailCalls == {i \in DOMAIN calls : calls[i].endpoint = "roleDetail"}
RolesAnswer == responses[1].response.data
DataOf(i) == responses[CHOOSE x \in DOMAIN responses : responses[x].call = i].response.data
ActorsOf(i) == IF DataOf(i).actors.k = "array" THEN DataOf(i).actors.items ELSE <<>>

\* the named actors of the role details, each as <<request, place in its list>>
Appearances ==
    UNION {{<<i, j>> : j \in {j \in DOMAIN ActorsOf(i) : Truthy(ActorsOf(i)[j].displayName)}} :
              i \in DetailCalls}

\* the order of the roles in the roles response, then the order within a role
Before(a, b) == a[1] < b[1] \/ (a[1] = b[1] /\ a[2] < b[2])
NameOf(a) == ActorsOf(a[1])[a[2]].displayName.s
FirstAppearances ==
    {a \in Appearances : \A b \in Appearances : NameOf(b) = NameOf(a) => ~Before(b, a)}
Nth(S, p) == CHOOSE a \in S : Cardinality({b \in S : Before(b, a)}) = p - 1

ExpectedRoles(a) ==
    LET same == {b \in Appearances : NameOf(b) = NameOf(a)} IN
    [p \in 1..Cardinality(same) |-> calls[Nth(same, p)[1]].roleName]

ExpectedRows ==
    [p \in 1..Cardinality(FirstAppearances) |->
        LET a == Nth(FirstAppearances, p)
            actor == ActorsOf(a[1])[a[2]]
        IN <<NameOf(a), actor.type,
             IF Truthy(actor.emailAddress) THEN actor.emailAddress.s ELSE NotAvailable,
             join(ExpectedRoles(a), CommaSpace)>>]

StringRoles == SelectSeq(RolesAnswer, LAMBDA e : e.url.k = "string")
CompletionOrder == [x \in 2..Len(responses) |-> responses[x].call]
MembersReturned == pc = "done" /\ DetailCalls # {}

\* C27: listProjectMembers issues its role-detail requests in parallel, one per role with
\* a string url in the order of the roles response and all of them before any is
\* answered, and the member table it returns is fixed by what the roles and the role
\* details answered, whatever the order in which the requests completed: the members in
\* the order of their first appearance (roles in response order, actors in list order),
\* each with the type and email of that first appearance and its roles in response order.
C27_TableIndependentOfCompletionOrder ==
    /\ pc = "awaitAll" =>
        /\ [k \in 1..Cardinality(DetailCalls) |-> calls[k + 1].roleName]
               = [k \in DOMAIN StringRoles |-> StringRoles[k].name]
        /\ DetailCalls = 2..Len(calls)
        /\ Pending = DetailCalls \ {CompletionOrder[x] : x \in DOMAIN CompletionOrder}
    /\ MembersReturned =>
        /\ Pending = {}
        /\ ~result[1].isError
        /\ IF FirstAppearances = {}
           THEN result[1].content[1].text.fmt = "No project members found."
           ELSE /\ result[1].content[1].text.fmt = "members"
                /\ result[1].content[1].text.rows = ExpectedRows

\* two members met in three roles whose requests completed in the reverse of the order
\* in which they were issued
C27_Witness ==
    /\ MembersReturned
    /\ Cardinality(DetailCalls) = 3
    /\ CompletionOrder = [x \in 2..4 |-> 6 - x]
    /\ result[1].content[1].text.fmt = "members"
    /\ Len(result[1].content[1].text.rows) = 2
    /\ result[1].content[1].text.rows[1][2] = GroupType
    /\ result[1].content[1].text.rows[1][4] = <<"A", "d">> \o CommaSpace \o <<"U", "s">>
====
